---- MODULE Spec2Model ----
(***************************************************************************)
(* A model of the Bedrock monitoring scripts (src/python-scripts).         *)
(*                                                                         *)
(* bedrock_monitor.py: one run of lambda_handler on a BedrockMonitor:      *)
(* collect_usage_metrics, publish_custom_metrics, detect_anomalies,        *)
(* send_alert, analyze_user_behavior, and the response.                    *)
(* enable_bedrock_logging.py: runs of setup_comprehensive_logging on an    *)
(* account, with verify_logging_setup and the calls it makes.              *)
(* validate_config.py: one run of main: validate_all with its six checks,  *)
(* generate_fix_suggestions and the exit code.                             *)
(* bedrock_reporter.py: a call of _calculate_error_trend.                  *)
(*                                                                         *)
(* Numbers.  CloudWatch values are Python floats; the model keeps them as  *)
(* exact integers.  A mean of n samples is kept as the pair (sum, n) and a *)
(* sample standard deviation by its numerator n*sumsq - sum^2, so that     *)
(* "x > mean + k * stdev" is decided exactly, without a square root.       *)
(* Percentages are computed on windows whose rate is a whole number        *)
(* (WholeRate); Python's float (e / v) * 100 is a monotone function of     *)
(* that exact rate and is 5.0 exactly when the rate is 5.  The one float   *)
(* that is no number, NaN, is kept as -1, which no count or rate equals;   *)
(* every operation on values treats it as Python does (CPython 3.11).      *)
(***************************************************************************)
EXTENDS Integers, Sequences, FiniteSets, TLC

(***************************************************************************)
(* Program constants.                                                      *)
(***************************************************************************)
BaselineDays == 7          \* timedelta(days=7)
HoursPerDay == 24          \* one baseline window is timedelta(hours=1)
MinBaseline == 24          \* len(baseline_metrics) < 24
ErrorRateFloor == 5        \* current_error_rate > 5
DefaultMultiplier == 2     \* threshold_multiplier: float = 2.0
SeverityNum == 3           \* threshold * 1.5, as the fraction 3/2
SeverityDen == 2
Hour == 60                 \* timedelta(hours=1), in minutes

BaselineHours == BaselineDays * HoursPerDay

(***************************************************************************)
(* CloudWatch responses.  A datapoint is a record holding the statistic    *)
(* that was asked for.  A call of get_metric_statistics either raises      *)
(* (ApiError) or returns a response holding the Datapoints.                *)
(***************************************************************************)
ApiError == [raises |-> TRUE]

Response(points) == [raises |-> FALSE, Datapoints |-> points]

MetricNames == {"Invocations", "Errors", "InputTokens", "OutputTokens", "Duration"}

StatisticOf(metric) == IF metric = "Duration" THEN "Average" ELSE "Sum"

\* _get_cloudwatch_metric: the datapoints, or [] when the call raised.
GetCloudwatchMetric(response) ==
    IF response.raises THEN << >> ELSE response.Datapoints

\* sum(...) over the elements lo..hi of a sequence, by halves.
RECURSIVE SeqSum(_, _, _)
SeqSum(xs, lo, hi) ==
    IF lo > hi THEN 0
    ELSE IF lo = hi THEN xs[lo]
    ELSE LET mid == (lo + hi) \div 2
         IN  SeqSum(xs, lo, mid) + SeqSum(xs, mid + 1, hi)

\* float('nan'): a datapoint value that is not a number.
NaN == -1

IsNaN(x) == x = NaN

HasNaN(xs) == \E i \in 1..Len(xs) : IsNaN(xs[i])

\* sum(xs): NaN as soon as one element is.
Sum(xs) == IF HasNaN(xs) THEN NaN ELSE SeqSum(xs, 1, Len(xs))

\* x - y and x > y on floats: NaN propagates, and compares False.
Minus(x, y) == IF IsNaN(x) \/ IsNaN(y) THEN NaN ELSE x - y

Greater(x, y) == ~IsNaN(x) /\ ~IsNaN(y) /\ x > y

\* A sequence given by a rule, as the list it denotes (built once).
List(xs) == xs \o << >>

\* A function given by a rule, as the table it denotes (built once).
Table(f) == f @@ << >>

SumOf(points, stat) == Sum(List([i \in 1..Len(points) |-> points[i][stat]]))

\* point[stat] raises KeyError on a datapoint without that key.
HasKey(points, stat) == \A i \in 1..Len(points) : stat \in DOMAIN points[i]

(***************************************************************************)
(* collect_usage_metrics.  responses maps each metric name to the response *)
(* of its get_metric_statistics call.  The result is the metrics           *)
(* dictionary: a record whose domain is the set of keys present, so that   *)
(* success_rate is a key only when line 114 or 119 was reached.  The mean  *)
(* of the Duration averages is kept as the pair (sum, n); the defaultdict  *)
(* entries are never written and stay empty.                               *)
(***************************************************************************)
EmptyDict == << >>

InitialMetrics ==
    [total_invocations |-> 0, total_errors |-> 0,
     total_input_tokens |-> 0, total_output_tokens |-> 0,
     avg_duration |-> [sum |-> 0, n |-> 1],
     model_usage |-> EmptyDict, error_distribution |-> EmptyDict,
     hourly_usage |-> EmptyDict]

\* What an expression that raised an exception yields.
Raised == [raised |-> TRUE]

\* The same, with the exception's class.
Raise(exception) == [raised |-> TRUE, exception |-> exception]

Value(v) == [raised |-> FALSE, value |-> v]

NoError == "None"

\* The exception an expression raised, NoError when it raised none.
ErrorOf(result) == IF result.raised THEN result.exception ELSE NoError

\* The first of two results that raised.
FirstError(first, second) == IF first.raised THEN first ELSE second

\* A percentage, (part / whole) * 100: ZeroDivisionError when whole is 0.
Percent(part, whole) ==
    IF whole = 0 THEN Raise("ZeroDivisionError")
    ELSE IF IsNaN(part) \/ IsNaN(whole) THEN Value(NaN)
    ELSE Value((part * 100) \div whole)

\* SuccessRate without the guard of line 113.
SuccessRateUnguarded(invocations, errors) ==
    Percent(Minus(invocations, errors), invocations)

\* Lines 112-119.
SuccessRate(invocations, errors) ==
    IF Greater(invocations, 0)
    THEN Percent(Minus(invocations, errors), invocations)
    ELSE Value(0)

\* sum(point['Sum'] for point in ...) on the datapoints of one metric:
\* the metrics with the total stored under key, or Raised.

Total(metrics, key, response) ==
    LET points == GetCloudwatchMetric(response) IN
    IF HasKey(points, "Sum")
    THEN [metrics EXCEPT ![key] = SumOf(points, "Sum")]
    ELSE Raised

\* Lines 106-110.
AvgDuration(metrics, response) ==
    LET points == GetCloudwatchMetric(response) IN
    IF points = << >> THEN metrics
    ELSE IF HasKey(points, "Average")
    THEN [metrics EXCEPT !.avg_duration =
             [sum |-> SumOf(points, "Average"), n |-> Len(points)]]
    ELSE Raised

CollectUsageMetrics(responses) ==
    LET m0 == InitialMetrics
        m1 == Total(m0, "total_invocations", responses["Invocations"])
        m2 == Total(m1, "total_errors", responses["Errors"])
        m3 == Total(m2, "total_input_tokens", responses["InputTokens"])
        m4 == Total(m3, "total_output_tokens", responses["OutputTokens"])
        m5 == AvgDuration(m4, responses["Duration"])
        success_rate == SuccessRate(m5.total_invocations, m5.total_errors)
    IN  IF m1 = Raised THEN m0
        ELSE IF m2 = Raised THEN m1
        ELSE IF m3 = Raised THEN m2
        ELSE IF m4 = Raised THEN m3
        ELSE IF m5 = Raised THEN m4
        ELSE IF success_rate.raised THEN m5
        ELSE m5 @@ [success_rate |-> success_rate.value]

(***************************************************************************)
(* The metric source.  A window is one hour of CloudWatch data: data maps  *)
(* each metric to its datapoints, and fails names, for each pass that      *)
(* fetches the window, the metrics whose get_metric_statistics call raises *)
(* in that pass.  The data is the same in every pass; the failures are     *)
(* per call.                                                               *)
(***************************************************************************)
Passes == {"handler", "baseline", "current", "errors"}

Fetch(window, pass) ==
    [m \in MetricNames |->
        IF m \in window.fails[pass] THEN ApiError ELSE Response(window.data[m])]

\* The baseline window that starts at time t, the first one starting at
\* start_time.
WindowAt(hist, start_time, t) == hist[((t - start_time) \div Hour) + 1]

(***************************************************************************)
(* statistics.mean and statistics.stdev, kept exact.                       *)
(***************************************************************************)
SumSq(xs) == SeqSum(List([i \in 1..Len(xs) |-> xs[i] * xs[i]]), 1, Len(xs))

\* statistics.mean(xs) = num / den; raises StatisticsError on no data.
\* The mean of data with a NaN is NaN.
Mean(xs) ==
    IF Len(xs) < 1 THEN Raise("StatisticsError")
    ELSE [raised |-> FALSE, num |-> Sum(xs), den |-> Len(xs)]

\* statistics.stdev(xs) = sqrt(num / den), the sample standard deviation;
\* raises StatisticsError on fewer than two data points, and AttributeError
\* on data with a NaN (the sum of squares is then a float, which has no
\* numerator).
Stdev(xs) ==
    IF Len(xs) < 2 THEN Raise("StatisticsError")
    ELSE IF HasNaN(xs) THEN Raise("AttributeError")
    ELSE [raised |-> FALSE,
          num |-> Len(xs) * SumSq(xs) - Sum(xs) * Sum(xs),
          den |-> Len(xs) * (Len(xs) - 1)]

\* The literal 0 standing for a standard deviation (line 295).
ZeroStdev == [raised |-> FALSE, num |-> 0, den |-> 1]

\* Threshold with the multiplier forgotten: mean + stdev.
ThresholdNoMultiplier(m, threshold_multiplier, sd) ==
    [mean |-> m, k |-> 1, stdev |-> sd]

\* mean + (threshold_multiplier * stdev), kept as its three parts.
Threshold(m, threshold_multiplier, sd) ==
    [mean |-> m, k |-> threshold_multiplier, stdev |-> sd]

\* a / b > c / d for a, c >= 0 and b, d > 0, without forming a * d.
RECURSIVE FracGT(_, _, _, _)
FracGT(a, b, c, d) ==
    LET qa == a \div b
        qc == c \div d
        ra == a % b
        rc == c % d
    IN  IF qa # qc THEN qa > qc
        ELSE IF ra = 0 THEN FALSE
        ELSE IF rc = 0 THEN TRUE
        ELSE FracGT(d, rc, b, ra)

\* x > (num / den) * threshold, for a whole number x:
\*   den*n*x - num*S > num*n*k*sqrt(V/D), with mean = S/n and stdev^2 = V/D.
Exceeds(x, threshold, num, den) ==
    LET n == threshold.mean.den
        S == threshold.mean.num
        k == threshold.k
        V == threshold.stdev.num
        D == threshold.stdev.den
        diff == den * n * x - num * S
    IN  /\ ~IsNaN(x)
        /\ ~IsNaN(S)
        /\ diff > 0
        /\ FracGT(diff * diff, num * num * n * n, k * k * V, D)

(***************************************************************************)
(* detect_anomalies.                                                       *)
(***************************************************************************)
\* The number of iterations of
\*     while current_time < end_time: ...; current_time = current_time + 1h
\* started at start_time: iteration i handles [start_time + (i-1)h, +1h).
LoopCount(start_time, end_time) ==
    IF start_time < end_time
    THEN ((end_time - start_time - 1) \div Hour) + 1
    ELSE 0

\* Lines 242-243 and 264-265: the times of a run that starts at end_time.
StartTime(end_time) == end_time - BaselineDays * HoursPerDay * Hour

CurrentHourStart(end_time) == end_time - (end_time % Hour)

CurrentHourEnd(end_time) == CurrentHourStart(end_time) + Hour

\* Lines 247-252 and 284-291: iteration i of a loop over the baseline
\* handles the window [WindowStart, WindowEnd).
WindowStart(end_time, i) == StartTime(end_time) + (i - 1) * Hour

WindowEnd(end_time, i) == WindowStart(end_time, i) + Hour

\* Line 254: the baseline is too short to decide.
Insufficient(baseline_metrics) == Len(baseline_metrics) < MinBaseline

\* Lines 279 and 288: the guards of the two divisions.
CurrentHasInvocations(metrics) == Greater(metrics.total_invocations, 0)

\* WindowHasInvocations with the guard of line 288 dropped.
WindowAlways(metrics) == TRUE

WindowHasInvocations(metrics) == Greater(metrics.total_invocations, 0)

\* Lines 280 and 289: (total_errors / total_invocations) * 100.
ErrorRate(metrics) == Percent(metrics.total_errors, metrics.total_invocations)

\* Severity with "high" from twice the threshold on.
SeverityFromTwice(value, threshold) ==
    IF Exceeds(value, threshold, 2, 1) THEN "high" ELSE "medium"

\* Lines 275 and 305.
Severity(value, threshold) ==
    IF Exceeds(value, threshold, SeverityNum, SeverityDen) THEN "high" ELSE "medium"

Anomaly(type, value, threshold, current_hour_start) ==
    [type |-> type,
     current_value |-> value,
     threshold |-> threshold,
     baseline_mean |-> threshold.mean,
     timestamp |-> current_hour_start,
     severity |-> Severity(value, threshold)]

\* HighUsage reached one invocation sooner than line 268 does.
HighUsageFromThreshold(current_metrics, threshold, current_hour_start) ==
    IF Exceeds(current_metrics.total_invocations + 1, threshold, 1, 1)
    THEN << Anomaly("high_usage", current_metrics.total_invocations,
                    threshold, current_hour_start) >>
    ELSE << >>

\* Line 268.
HighUsage(current_metrics, threshold, current_hour_start) ==
    IF Exceeds(current_metrics.total_invocations, threshold, 1, 1)
    THEN << Anomaly("high_usage", current_metrics.total_invocations,
                    threshold, current_hour_start) >>
    ELSE << >>

\* ErrorStdev without the guard of line 295.
ErrorStdevUnguarded(baseline_error_rates) == Stdev(baseline_error_rates)

\* Line 295.
ErrorStdev(baseline_error_rates) ==
    IF Len(baseline_error_rates) > 1 THEN Stdev(baseline_error_rates) ELSE ZeroStdev

\* HighErrorRate without the 5% floor.
HighErrorRateNoFloor(current_error_rate, error_threshold, current_hour_start) ==
    IF Exceeds(current_error_rate, error_threshold, 1, 1)
    THEN << Anomaly("high_error_rate", current_error_rate,
                    error_threshold, current_hour_start) >>
    ELSE << >>

\* Line 298.
HighErrorRate(current_error_rate, error_threshold, current_hour_start) ==
    IF /\ Exceeds(current_error_rate, error_threshold, 1, 1)
       /\ Greater(current_error_rate, ErrorRateFloor)
    THEN << Anomaly("high_error_rate", current_error_rate,
                    error_threshold, current_hour_start) >>
    ELSE << >>

\* ErrorRateCheck without the guard of line 293: an empty baseline is taken
\* as a mean of 0.
ErrorRateCheckUnguarded(current_error_rate, baseline_error_rates, threshold_multiplier, current_hour_start) ==
    Value(HighErrorRate(current_error_rate,
                        Threshold(IF baseline_error_rates = << >>
                                  THEN ZeroStdev
                                  ELSE Mean(baseline_error_rates),
                                  threshold_multiplier,
                                  ErrorStdev(baseline_error_rates)),
                        current_hour_start))

\* Lines 293-306: the anomalies of the error-rate check, or Raised.
ErrorRateCheck(current_error_rate, baseline_error_rates, threshold_multiplier, current_hour_start) ==
    IF baseline_error_rates # << >>
    THEN LET baseline_error_mean == Mean(baseline_error_rates)
             baseline_error_stdev == ErrorStdev(baseline_error_rates)
         IN  IF baseline_error_mean.raised \/ baseline_error_stdev.raised
             THEN FirstError(baseline_error_mean, baseline_error_stdev)
             ELSE Value(HighErrorRate(current_error_rate,
                                      Threshold(baseline_error_mean,
                                                threshold_multiplier,
                                                baseline_error_stdev),
                                      current_hour_start))
    ELSE Value(<< >>)

\* The hourly metrics collect_usage_metrics returns for each baseline window
\* in one pass.  A window's metrics depend on the window and the pass alone,
\* so they are computed once for each distinct window.
Hourly(hist, pass) ==
    Table([w \in {hist[i] : i \in DOMAIN hist} |-> CollectUsageMetrics(Fetch(w, pass))])

\* Lines 284-291: the hourly metrics of the second pass over the baseline
\* windows, and the error rates of those that pass the guard of line 288.
ErrorPass(hist, start_time, end_time) ==
    LET hourly_metrics == Hourly(hist, "errors")
    IN  List([i \in 1..LoopCount(start_time, end_time - Hour) |->
            hourly_metrics[WindowAt(hist, start_time, start_time + (i - 1) * Hour)]])

ErrorSamples(hourly) ==
    LET kept == SelectSeq(hourly, WindowHasInvocations)
    IN  List([i \in 1..Len(kept) |-> ErrorRate(kept[i])])

(***************************************************************************)
(* One run.  The value returned to the caller is the field anomalies; the  *)
(* other fields record the run's locals and what it logged: warning is the *)
(* "Insufficient data" warning of line 255, error the exception caught by  *)
(* the except clause of line 308 (NoError when none was).                  *)
(***************************************************************************)
Run(anomalies, baseline_metrics, baseline_error_rates, current_metrics, warning, error) ==
    [anomalies |-> anomalies,
     baseline_metrics |-> baseline_metrics,
     baseline_error_rates |-> baseline_error_rates,
     current_metrics |-> current_metrics,
     warning |-> warning,
     error |-> error]

\* CheckErrorRate with an except clause that returns a fresh empty list.
CheckErrorRateReturnsEmpty(anomalies, baseline_metrics, current_metrics, threshold_multiplier, hist, start_time, end_time, current_hour_start) ==
    IF ~CurrentHasInvocations(current_metrics)
    THEN Run(anomalies, baseline_metrics, << >>, current_metrics, FALSE, NoError)
    ELSE
    LET current == ErrorRate(current_metrics)
        samples == ErrorSamples(ErrorPass(hist, start_time, end_time))
        failed == \E i \in 1..Len(samples) : samples[i].raised
        baseline_error_rates == List([i \in 1..Len(samples) |-> samples[i].value])
    IN  IF current.raised
        THEN Run(<< >>, baseline_metrics, << >>, current_metrics, FALSE,
                 ErrorOf(current))
        ELSE IF failed
        THEN Run(<< >>, baseline_metrics, << >>, current_metrics, FALSE,
                 "ZeroDivisionError")
        ELSE
        LET found == ErrorRateCheck(current.value, baseline_error_rates,
                                    threshold_multiplier, current_hour_start)
        IN  IF found.raised
            THEN Run(<< >>, baseline_metrics, baseline_error_rates,
                     current_metrics, FALSE, ErrorOf(found))
            ELSE Run(anomalies \o found.value, baseline_metrics,
                     baseline_error_rates, current_metrics, FALSE, NoError)

\* Lines 278-306, after the high_usage check left anomalies.
CheckErrorRate(anomalies, baseline_metrics, current_metrics, threshold_multiplier, hist, start_time, end_time, current_hour_start) ==
    IF ~CurrentHasInvocations(current_metrics)
    THEN Run(anomalies, baseline_metrics, << >>, current_metrics, FALSE, NoError)
    ELSE
    LET current == ErrorRate(current_metrics)
        samples == ErrorSamples(ErrorPass(hist, start_time, end_time))
        failed == \E i \in 1..Len(samples) : samples[i].raised
        baseline_error_rates == List([i \in 1..Len(samples) |-> samples[i].value])
    IN  IF current.raised
        THEN Run(anomalies, baseline_metrics, << >>, current_metrics, FALSE,
                 ErrorOf(current))
        ELSE IF failed
        THEN Run(anomalies, baseline_metrics, << >>, current_metrics, FALSE,
                 "ZeroDivisionError")
        ELSE
        LET found == ErrorRateCheck(current.value, baseline_error_rates,
                                    threshold_multiplier, current_hour_start)
        IN  IF found.raised
            THEN Run(anomalies, baseline_metrics, baseline_error_rates,
                     current_metrics, FALSE, ErrorOf(found))
            ELSE Run(anomalies \o found.value, baseline_metrics,
                     baseline_error_rates, current_metrics, FALSE, NoError)

DetectRun(threshold_multiplier, now, hist, cur) ==
    LET end_time == now
        start_time == StartTime(end_time)
        hourly_metrics == Hourly(hist, "baseline")
        baseline_metrics ==
            List([i \in 1..LoopCount(start_time, end_time) |->
                hourly_metrics[WindowAt(hist, start_time, start_time + (i - 1) * Hour)]
                    .total_invocations])
    IN  IF Insufficient(baseline_metrics)
        THEN Run(<< >>, baseline_metrics, << >>, InitialMetrics, TRUE, NoError)
        ELSE
        LET baseline_mean == Mean(baseline_metrics)
            baseline_stdev == Stdev(baseline_metrics)
        IN  IF baseline_mean.raised \/ baseline_stdev.raised
            THEN Run(<< >>, baseline_metrics, << >>, InitialMetrics, FALSE,
                     ErrorOf(FirstError(baseline_mean, baseline_stdev)))
            ELSE
            LET threshold == Threshold(baseline_mean, threshold_multiplier, baseline_stdev)
                current_hour_start == CurrentHourStart(now)
                current_metrics == CollectUsageMetrics(Fetch(cur, "current"))
            IN  CheckErrorRate(HighUsage(current_metrics, threshold, current_hour_start),
                               baseline_metrics, current_metrics, threshold_multiplier,
                               hist, start_time, end_time, current_hour_start)

DetectAnomalies(threshold_multiplier, now, hist, cur) ==
    DetectRun(threshold_multiplier, now, hist, cur).anomalies

(***************************************************************************)
(* The inputs of the model: windows of CloudWatch data and the failures of *)
(* the calls that fetch them.                                              *)
(***************************************************************************)
SumPoints(values) == [i \in 1..Len(values) |-> [Sum |-> values[i]]]

\* One hour with the given Invocations and Errors datapoints; tokens and
\* duration are reported for an hour that had invocations.
WindowData(invocations, errors) ==
    [m \in MetricNames |->
        CASE m = "Invocations" -> SumPoints(invocations)
          [] m = "Errors" -> SumPoints(errors)
          [] m = "InputTokens" -> SumPoints([i \in 1..Len(invocations) |-> 7])
          [] m = "OutputTokens" -> SumPoints([i \in 1..Len(invocations) |-> 9])
          [] m = "Duration" -> [i \in 1..Len(invocations) |-> [Average |-> 3]]]

NoFailure == [p \in Passes |-> {}]
Outage == [p \in Passes |-> MetricNames]
FailsIn(pass, metrics) == [p \in Passes |-> IF p = pass THEN metrics ELSE {}]

Window(invocations, errors, fails) ==
    [data |-> WindowData(invocations, errors), fails |-> fails]

\* A datapoint that lacks the statistic asked for.
BadPoint == [SampleCount |-> 1]

Malformed(window, metric) ==
    [window EXCEPT !.data[metric] = << BadPoint >>]

Quiet == Window(<< >>, << >>, NoFailure)

\* The windows the model draws from have a whole number of percent as their
\* error rate, and no more errors than invocations.
WholeRate(window) ==
    LET m == CollectUsageMetrics(Fetch([window EXCEPT !.fails = NoFailure], "current"))
    IN  \/ IsNaN(m.total_errors)
        \/ /\ m.total_errors <= m.total_invocations
           /\ m.total_invocations > 0 =>
                 (m.total_errors * 100) % m.total_invocations = 0

\* The hours a baseline is made of.
BaselineWindows ==
    { w \in { Quiet,
      Window(<<10>>, << >>, NoFailure),
      Window(<<10>>, <<1>>, NoFailure),
      Window(<<20>>, <<1>>, NoFailure),
      Window(<<60, 40>>, <<2>>, NoFailure),
      Window(<<10>>, <<1>>, Outage),
      Window(<<10>>, <<1>>, FailsIn("baseline", {"Invocations"})),
      Window(<<10>>, <<1>>, FailsIn("errors", {"Invocations"})),
      Window(<<10>>, <<1>>, FailsIn("errors", {"Errors"})),
      Malformed(Window(<<10>>, <<1>>, NoFailure), "Errors"),
      Window(<<10>>, <<NaN>>, NoFailure) } : WholeRate(w) }

\* The current hour.
CurrentWindows ==
    { w \in { Quiet,
      Window(<<10>>, << >>, NoFailure),
      Window(<<10>>, <<1>>, NoFailure),
      Window(<<31>>, << >>, NoFailure),
      Window(<<15>>, <<3>>, NoFailure),
      Window(<<16>>, <<4>>, NoFailure),
      Window(<<60, 40>>, <<2>>, NoFailure),
      Window(<<100>>, <<5>>, NoFailure),
      Window(<<100>>, <<6>>, NoFailure),
      Window(<<20>>, <<20>>, NoFailure),
      Window(<<10>>, <<1>>, Outage),
      Malformed(Window(<<10>>, <<1>>, NoFailure), "Invocations"),
      Malformed(Window(<<10>>, <<1>>, NoFailure), "Errors") } : WholeRate(w) }

\* A week of hours: the first split hours are like first, the others like rest.
Splits == {1, MinBaseline - 1, MinBaseline}

History(first, split, rest) ==
    [i \in 1..BaselineHours |-> IF i <= split THEN first ELSE rest]

\* What the rest of a week is like.
RestWindows ==
    { Quiet,
      Window(<<10>>, << >>, NoFailure),
      Window(<<10>>, <<1>>, NoFailure),
      Window(<<10>>, <<1>>, Outage) }

Histories ==
    { History(first, split, rest) :
        first \in BaselineWindows, split \in Splits, rest \in RestWindows }

Multipliers == {DefaultMultiplier, 3}

\* The minute of the hour at which a run starts.
Minutes == {0, 25}

(***************************************************************************)
(* publish_custom_metrics, send_alert and analyze_user_behavior.           *)
(***************************************************************************)
BatchSize == 20            \* range(0, len(metric_data), 20)

\* isinstance(value, (int, float)): the totals, the mean duration and the
\* success rate are numbers, the three defaultdicts are not.
NumericKeys ==
    << "total_invocations", "total_errors", "total_input_tokens",
       "total_output_tokens", "avg_duration", "success_rate" >>

IsNumeric(key) == \E i \in 1..Len(NumericKeys) : NumericKeys[i] = key

\* The keys of the metrics dictionary, in the order of their insertion
\* (lines 70-79, then 114 or 119).
MetricsKeys ==
    << "total_invocations", "total_errors", "total_input_tokens",
       "total_output_tokens", "avg_duration", "model_usage",
       "error_distribution", "hourly_usage", "success_rate" >>

\* An item of a dictionary: numeric says whether the value is an int or a
\* float.
Item(key, value, numeric) == [key |-> key, value |-> value, numeric |-> numeric]

\* metrics.items() for the dictionary collect_usage_metrics returns.
Items(metrics) ==
    LET InDict(key) == key \in DOMAIN metrics
        keys == SelectSeq(MetricsKeys, InDict)
    IN  [i \in 1..Len(keys) |-> Item(keys[i], metrics[keys[i]], IsNumeric(keys[i]))]

\* Lines 405-420: one entry for each numeric value, in dictionary order.
MetricData(items) ==
    LET ValueIsNumeric(item) == item.numeric
        kept == SelectSeq(items, ValueIsNumeric)
    IN  [i \in 1..Len(kept) |-> [MetricName |-> kept[i].key, Value |-> kept[i].value]]

\* Lines 423-424: batch number b (from 1) is metric_data[i:i+20], i = 20(b-1).
BatchCount(metric_data) == (Len(metric_data) + BatchSize - 1) \div BatchSize

\* Batch with a slice that is one entry too long.
BatchInclusive(metric_data, b) ==
    SubSeq(metric_data, BatchSize * (b - 1) + 1,
           IF BatchSize * b + 1 < Len(metric_data) THEN BatchSize * b + 1
                                                   ELSE Len(metric_data))

Batch(metric_data, b) ==
    SubSeq(metric_data, BatchSize * (b - 1) + 1,
           IF BatchSize * b < Len(metric_data) THEN BatchSize * b ELSE Len(metric_data))

\* Lines 404-435 when put_metric_data call number failing raises (no call
\* does when failing is BatchCount + 1): the batches accepted before it, and
\* the value returned.
Published(items, failing) ==
    LET metric_data == MetricData(items) IN
    [accepted |-> [b \in 1..(failing - 1) |-> Batch(metric_data, b)],
     returned |-> failing > BatchCount(metric_data)]

\* Lines 456-459: the alert text, as the count and one entry for each anomaly.
AlertMessage(anomalies) ==
    [detected |-> Len(anomalies),
     lines |-> [i \in 1..Len(anomalies) |->
                  [type |-> anomalies[i].type,
                   current_value |-> anomalies[i].current_value,
                   threshold |-> anomalies[i].threshold,
                   severity |-> anomalies[i].severity]]]

AlertSubject == "Bedrock Usage Anomaly Detected"

\* Lines 206-220: the rows of a completed Insights query, each with a user
\* name and a request count.
UserBehavior(rows) ==
    [top_users |-> rows,
     unique_users |-> Cardinality({rows[i].userName : i \in 1..Len(rows)}),
     total_requests |-> Sum(List([i \in 1..Len(rows) |-> rows[i].requestCount]))]

\* user_behavior.get('unique_users', 0)
UniqueUsers(user_behavior) ==
    IF "unique_users" \in DOMAIN user_behavior THEN user_behavior.unique_users ELSE 0

Row(user, count) == [userName |-> user, requestCount |-> count]

QueryResults ==
    { << >>,
      << Row("alice", 3) >>,
      << Row("alice", 3), Row("bob", 1), Row("alice", 2) >> }

TerminalStatuses == {"Complete", "Failed", "Cancelled", "Timeout"}

(***************************************************************************)
(* State.                                                                  *)
(***************************************************************************)
VARIABLES
    pc,             \* where the program is
    now,            \* datetime.utcnow(), in minutes
    hist,           \* CloudWatch: the BaselineHours hours before now
    cur,            \* CloudWatch: the current hour
    multiplier,     \* the threshold_multiplier of the call
    run,            \* detect_anomalies: its result and locals
    sns_topic_arn,  \* os.getenv('SNS_TOPIC_ARN'); "" when unset
    metrics,        \* lambda_handler: the metrics of the last hour
    put_calls,      \* CloudWatch: the batches put_metric_data accepted
    published,      \* the calls of publish_custom_metrics, each with its return value
    sns_messages,   \* SNS: the messages published to the topic
    sns_calls,      \* SNS: the outcome of each publish call
    alert,          \* the calls of send_alert, each with its return value
    query,          \* CloudWatch Logs: the status of the Insights query
    user_behavior,  \* lambda_handler: what analyze_user_behavior returned
    response,       \* what lambda_handler returned
    aws,            \* the account: its log groups, buckets and Bedrock logging configuration
    setups,         \* the runs of setup_comprehensive_logging, each with what it did
    validator,      \* ConfigValidator: errors, warnings, success_messages
    checks,         \* the checks validate_all has called, in order
    params_file,    \* cloudformation/parameters.json
    is_valid,       \* main of validate_config.py: what validate_all returned
    suggestions,    \* main: what generate_fix_suggestions returned
    exit_code,      \* the exit status of validate_config.py
    current_time,   \* detect_anomalies: the start of the window a loop is at
    fetches,        \* detect_anomalies: the windows each loop has fetched so far
    daily,          \* CloudWatch: the days before now, the most recent first
    error_trend     \* the calls of _calculate_error_trend, each with its return value

vars == << pc, now, hist, cur, multiplier, run, sns_topic_arn, metrics,
           put_calls, published, sns_messages, sns_calls, alert, query,
           user_behavior, response, aws, setups, validator, checks,
           params_file, is_valid, suggestions, exit_code, current_time,
           fetches, daily, error_trend >>

source == << now, hist, cur, multiplier >>
handler == << sns_topic_arn, metrics, put_calls, published, sns_messages,
              sns_calls, alert, query, user_behavior, response >>

logging == << aws, setups >>
validation == << validator, checks, params_file, is_valid, suggestions, exit_code >>
loops == << current_time, fetches >>
reporter == << daily, error_trend >>

\* An account the logging script has not been run on.
NoAccount == [log_groups |-> {}, buckets |-> {}, logging_config |-> << >>]

NoSetup ==
    /\ aws = NoAccount
    /\ setups = << >>

\* ConfigValidator.__init__
NewValidator == [errors |-> << >>, warnings |-> << >>, success_messages |-> << >>]

\* No file at cloudformation/parameters.json.
NoFile == [exists |-> FALSE, json |-> FALSE, list |-> FALSE, params |-> << >>]

InitValidator ==
    /\ validator = NewValidator
    /\ checks = << >>
    /\ is_valid = << >>
    /\ suggestions = << >>
    /\ exit_code = << >>

NoValidation ==
    /\ InitValidator
    /\ params_file = NoFile

\* No loop of detect_anomalies has been entered.
NoFetches == [baseline |-> 0, errors |-> 0]

NoLoops ==
    /\ current_time = 0
    /\ fetches = NoFetches

NoReport ==
    /\ daily = << >>
    /\ error_trend = << >>

NoRun == Run(<< >>, << >>, << >>, InitialMetrics, FALSE, NoError)

InitHandler ==
    /\ sns_topic_arn = ""
    /\ metrics = InitialMetrics
    /\ put_calls = << >>
    /\ published = << >>
    /\ sns_messages = << >>
    /\ sns_calls = << >>
    /\ alert = << >>
    /\ query = "none"
    /\ user_behavior = EmptyDict
    /\ response = EmptyDict

(***************************************************************************)
(* SpecDetect: a call monitor.detect_anomalies(threshold_multiplier) on a  *)
(* constructed monitor, as in the local test of lines 499-501.             *)
(***************************************************************************)
InitDetect ==
    /\ pc = "call"
    /\ now \in Minutes
    /\ hist \in Histories
    /\ cur \in CurrentWindows
    /\ multiplier \in Multipliers
    /\ run = NoRun
    /\ InitHandler
    /\ NoSetup
    /\ NoValidation
    /\ NoLoops
    /\ NoReport

\* Detect on a monitor that keeps its anomaly list from call to call.
DetectAccumulates ==
    /\ pc \in {"call", "returned"}
    /\ run' = [DetectRun(multiplier, now, hist, cur) EXCEPT
                 !.anomalies = run.anomalies \o @]
    /\ pc' = IF pc = "call" THEN "returned" ELSE "repeated"
    /\ UNCHANGED << logging, validation, loops, reporter, source, handler >>

\* The call, and a second call on the same monitor against the same metric
\* source at the same time.
Detect ==
    /\ pc \in {"call", "returned"}
    /\ run' = DetectRun(multiplier, now, hist, cur)
    /\ pc' = IF pc = "call" THEN "returned" ELSE "repeated"
    /\ UNCHANGED << logging, validation, loops, reporter, source, handler >>

NextDetect == Detect

SpecDetect == InitDetect /\ [][NextDetect]_vars

(***************************************************************************)
(* SpecLoops: the same call, one turn of a loop at a time.  end_time is    *)
(* now, the utcnow() of line 242.  The call is sequential and               *)
(* collect_usage_metrics returns (C7), so the step that is next is taken.  *)
(***************************************************************************)
\* Lines 249 and 286: next_time.
NextTime(time) == time + Hour

\* The error-rate loop going on to end_time as the first loop does.
ErrorLoopEndAtEndTime(end_time) == end_time

\* Line 285: end_time - timedelta(hours=1).
ErrorLoopEnd(end_time) == end_time - Hour

\* The weeks and hours the loops are followed on: a busy first day, an
\* outage of CloudWatch, a week with a datapoint that is no number.
LoopHistories ==
    { History(Window(<<10>>, <<1>>, NoFailure), MinBaseline, Quiet),
      History(Window(<<10>>, <<1>>, Outage), 1, Window(<<10>>, <<1>>, Outage)),
      History(Window(<<NaN>>, <<1>>, NoFailure), MinBaseline, Quiet) }

LoopCurrent ==
    { Quiet,
      Window(<<100>>, <<6>>, NoFailure) }

\* Lines 238-247.
InitLoops ==
    /\ pc = "baseline"
    /\ now \in Minutes
    /\ hist \in LoopHistories
    /\ cur \in LoopCurrent
    /\ multiplier = DefaultMultiplier
    /\ run = NoRun
    /\ current_time = StartTime(now)
    /\ fetches = NoFetches
    /\ InitHandler
    /\ NoSetup
    /\ NoValidation
    /\ NoReport

\* Lines 248-252: one turn of the invocation-baseline loop.
BaselineFetch ==
    /\ pc = "baseline"
    /\ current_time < now
    /\ LET hourly_metrics == CollectUsageMetrics(Fetch(WindowAt(hist, StartTime(now), current_time), "baseline")) IN
          run' = [run EXCEPT !.baseline_metrics = Append(@, hourly_metrics.total_invocations)]
    /\ current_time' = NextTime(current_time)
    /\ fetches' = [fetches EXCEPT !.baseline = @ + 1]
    /\ UNCHANGED << pc, source, handler, logging, validation, reporter >>

\* Lines 254-284, once the first loop has ended: the run returns, or enters
\* the error-rate loop.
BaselineDone ==
    /\ pc = "baseline"
    /\ ~(current_time < now)
    /\ LET baseline_metrics == run.baseline_metrics
           baseline_mean == Mean(baseline_metrics)
           baseline_stdev == Stdev(baseline_metrics)
           threshold == Threshold(baseline_mean, multiplier, baseline_stdev)
           current_metrics == CollectUsageMetrics(Fetch(cur, "current"))
           anomalies == HighUsage(current_metrics, threshold, CurrentHourStart(now))
       IN  IF Insufficient(baseline_metrics)
           THEN /\ run' = Run(<< >>, baseline_metrics, << >>, InitialMetrics, TRUE, NoError)
                /\ pc' = "returned"
                /\ UNCHANGED current_time
           ELSE IF baseline_mean.raised \/ baseline_stdev.raised
           THEN /\ run' = Run(<< >>, baseline_metrics, << >>, InitialMetrics, FALSE, ErrorOf(FirstError(baseline_mean, baseline_stdev)))
                /\ pc' = "returned"
                /\ UNCHANGED current_time
           ELSE IF ~CurrentHasInvocations(current_metrics)
           THEN /\ run' = Run(anomalies, baseline_metrics, << >>, current_metrics, FALSE, NoError)
                /\ pc' = "returned"
                /\ UNCHANGED current_time
           ELSE IF ErrorRate(current_metrics).raised
           THEN /\ run' = Run(anomalies, baseline_metrics, << >>, current_metrics, FALSE, ErrorOf(ErrorRate(current_metrics)))
                /\ pc' = "returned"
                /\ UNCHANGED current_time
           ELSE /\ run' = Run(anomalies, baseline_metrics, << >>, current_metrics, FALSE, NoError)
                /\ pc' = "errors"
                /\ current_time' = StartTime(now)
    /\ UNCHANGED << fetches, source, handler, logging, validation, reporter >>

\* Lines 285-291: one turn of the error-rate loop.
ErrorFetch ==
    /\ pc = "errors"
    /\ current_time < ErrorLoopEnd(now)
    /\ LET hourly_metrics == CollectUsageMetrics(Fetch(WindowAt(hist, StartTime(now), current_time), "errors"))
           error_rate == ErrorRate(hourly_metrics)
       IN  IF ~WindowHasInvocations(hourly_metrics)
           THEN UNCHANGED << run, pc >>
           ELSE IF error_rate.raised
           THEN /\ run' = [run EXCEPT !.baseline_error_rates = << >>, !.error = ErrorOf(error_rate)]
                /\ pc' = "returned"
           ELSE /\ run' = [run EXCEPT !.baseline_error_rates = Append(@, error_rate.value)]
                /\ UNCHANGED pc
    /\ current_time' = NextTime(current_time)
    /\ fetches' = [fetches EXCEPT !.errors = @ + 1]
    /\ UNCHANGED << source, handler, logging, validation, reporter >>

\* Lines 293-310, once the second loop has ended.
ErrorsDone ==
    /\ pc = "errors"
    /\ ~(current_time < ErrorLoopEnd(now))
    /\ LET found == ErrorRateCheck(ErrorRate(run.current_metrics).value, run.baseline_error_rates, multiplier, CurrentHourStart(now)) IN
          run' = IF found.raised
                 THEN [run EXCEPT !.error = ErrorOf(found)]
                 ELSE [run EXCEPT !.anomalies = @ \o found.value]
    /\ pc' = "returned"
    /\ UNCHANGED << current_time, fetches, source, handler, logging, validation, reporter >>

NextLoops ==
    \/ BaselineFetch
    \/ BaselineDone
    \/ ErrorFetch
    \/ ErrorsDone

SpecLoops == InitLoops /\ [][NextLoops]_vars /\ WF_vars(NextLoops)

(***************************************************************************)
(* SpecTrend: a call reporter._calculate_error_trend(days_back) of         *)
(* bedrock_reporter.py (lines 105-129).  days[i] is the day fetched in     *)
(* turn i - 1 of the loop, the day that starts (i - 1) + 1 days before the *)
(* call: days[1] is the most recent day, days[Len(days)] the oldest.       *)
(***************************************************************************)
MaxDays == 3

\* Lines 111-113: daily_metrics of every turn of the loop.
DailyMetrics(days) ==
    List([i \in 1..Len(days) |-> CollectUsageMetrics(Fetch(days[i], "current"))])

\* Lines 109-117: daily_error_rates, in the order of the appends.
DailyErrorRates(days) == ErrorSamples(DailyMetrics(days))

\* Lines 119-127, for rates none of which raised.
TrendOf(daily_error_rates) ==
    LET first == daily_error_rates[1].value
        last == daily_error_rates[Len(daily_error_rates)].value
    IN  IF Len(daily_error_rates) >= 2
        THEN IF Greater(first, last) THEN "Improving"
             ELSE IF Greater(last, first) THEN "Worsening"
             ELSE "Stable"
        ELSE "Insufficient Data"

\* Lines 107-129.
CalculateErrorTrend(days) ==
    LET daily_error_rates == DailyErrorRates(days)
    IN  IF \E i \in 1..Len(daily_error_rates) : daily_error_rates[i].raised
        THEN "Unknown"
        ELSE TrendOf(daily_error_rates)

\* The days a period is made of: without traffic, without errors, with
\* errors, with CloudWatch out, with an error count that is no number.
TrendWindows ==
    { Quiet,
      Window(<<10>>, << >>, NoFailure),
      Window(<<10>>, <<1>>, NoFailure),
      Window(<<20>>, <<1>>, NoFailure),
      Window(<<10>>, <<1>>, Outage),
      Window(<<10>>, <<NaN>>, NoFailure) }

\* days_back
DaysBack == 0..MaxDays

Periods == UNION { [1..n -> TrendWindows] : n \in DaysBack }

InitTrend ==
    /\ pc = "trend"
    /\ daily \in Periods
    /\ error_trend = << >>
    /\ now = 0
    /\ hist = << >>
    /\ cur = Quiet
    /\ multiplier = DefaultMultiplier
    /\ run = NoRun
    /\ InitHandler
    /\ NoSetup
    /\ NoValidation
    /\ NoLoops

\* Lines 105-129: the call, and the value it returns.
ErrorTrend ==
    /\ pc = "trend"
    /\ error_trend' = Append(error_trend, CalculateErrorTrend(daily))
    /\ pc' = "reported"
    /\ UNCHANGED << daily, source, run, handler, logging, validation, loops >>

NextTrend == ErrorTrend

SpecTrend == InitTrend /\ [][NextTrend]_vars

(***************************************************************************)
(* Spec: one run of lambda_handler (lines 437-485).                        *)
(***************************************************************************)
HandlerFirst ==
    { Window(<<10>>, <<1>>, NoFailure),
      Window(<<60, 40>>, <<2>>, NoFailure),
      Window(<<10>>, <<1>>, Outage),
      Malformed(Window(<<10>>, <<1>>, NoFailure), "Errors") }

HandlerHistories ==
    { History(first, split, rest) :
        first \in HandlerFirst,
        split \in Splits \ {1},
        rest \in {Quiet, Window(<<10>>, << >>, NoFailure)} }

HandlerCurrent ==
    { Quiet,
      Window(<<10>>, << >>, NoFailure),
      Window(<<31>>, << >>, NoFailure),
      Window(<<100>>, <<6>>, NoFailure),
      Window(<<20>>, <<20>>, NoFailure) }

Init ==
    /\ pc = "start"
    /\ now \in Minutes
    /\ hist \in HandlerHistories
    /\ cur \in HandlerCurrent
    /\ multiplier = DefaultMultiplier
    /\ run = NoRun
    /\ InitHandler
    /\ NoSetup
    /\ NoValidation
    /\ NoLoops
    /\ NoReport

\* Lines 478-485.
ErrorResponse == [statusCode |-> 500, body |-> [error |-> "Exception"]]

\* Line 442: monitor = BedrockMonitor(); a boto3.client call may raise.
Construct ==
    /\ pc = "start"
    /\ \E raises \in BOOLEAN, arn \in {"", "arn:aws:sns:topic"} :
          IF raises
          THEN /\ response' = ErrorResponse
               /\ pc' = "done"
               /\ UNCHANGED sns_topic_arn
          ELSE /\ sns_topic_arn' = arn
               /\ pc' = "collect"
               /\ UNCHANGED response
    /\ UNCHANGED << logging, validation, loops, reporter, source, run, metrics, put_calls, published, sns_messages, sns_calls, alert, query,
                    user_behavior >>

\* Lines 445-447: the last hour is the last baseline window.
Collect ==
    /\ pc = "collect"
    /\ metrics' = CollectUsageMetrics(Fetch(hist[BaselineHours], "handler"))
    /\ pc' = "publish"
    /\ UNCHANGED << logging, validation, loops, reporter, source, run, sns_topic_arn, put_calls, published, sns_messages, sns_calls, alert,
                    query, user_behavior, response >>

\* Line 450: publish_custom_metrics(metrics); the batches before the first
\* put_metric_data call that raises are accepted.  The return value is
\* not used.
PublishCustomMetrics ==
    /\ pc = "publish"
    /\ \E failing \in 1..(BatchCount(MetricData(Items(metrics))) + 1) :
          LET outcome == Published(Items(metrics), failing) IN
          /\ put_calls' = put_calls \o outcome.accepted
          /\ published' = Append(published, outcome.returned)
    /\ pc' = "detect"
    /\ UNCHANGED << logging, validation, loops, reporter, source, run, sns_topic_arn, metrics, sns_messages, sns_calls, alert,
                    query, user_behavior, response >>

\* HandlerDetect without the test of line 455.
HandlerDetectAlwaysAlerts ==
    /\ pc = "detect"
    /\ run' = DetectRun(DefaultMultiplier, now, hist, cur)
    /\ pc' = "alert"
    /\ UNCHANGED << logging, validation, loops, reporter, source, handler >>

\* Lines 453-455.
HandlerDetect ==
    /\ pc = "detect"
    /\ run' = DetectRun(DefaultMultiplier, now, hist, cur)
    /\ pc' = IF run'.anomalies # << >> THEN "alert" ELSE "analyze"
    /\ UNCHANGED << logging, validation, loops, reporter, source, handler >>

\* SendAlert with the except clause of line 390 missing: a publish error
\* reaches the except clause of lambda_handler.
SendAlertRaises ==
    /\ pc = "alert"
    /\ IF sns_topic_arn = ""
       THEN /\ alert' = Append(alert, FALSE)
            /\ pc' = "analyze"
            /\ UNCHANGED << sns_messages, sns_calls, response >>
       ELSE \E raises \in BOOLEAN :
            IF raises
            THEN /\ sns_calls' = Append(sns_calls, "error")
                 /\ response' = ErrorResponse
                 /\ pc' = "done"
                 /\ UNCHANGED << alert, sns_messages >>
            ELSE /\ sns_calls' = Append(sns_calls, "ok")
                 /\ alert' = Append(alert, TRUE)
                 /\ sns_messages' =
                        Append(sns_messages,
                               [Subject |-> AlertSubject,
                                Message |-> AlertMessage(run.anomalies)])
                 /\ pc' = "analyze"
                 /\ UNCHANGED response
    /\ UNCHANGED << logging, validation, loops, reporter, source, run, sns_topic_arn, metrics, put_calls, published, query,
                    user_behavior >>

\* SendAlert without the test of line 378: publish is called with no topic,
\* and fails.
SendAlertIgnoresTopic ==
    /\ pc = "alert"
    /\ \E raises \in BOOLEAN :
          IF raises \/ sns_topic_arn = ""
          THEN /\ sns_calls' = Append(sns_calls, "error")
               /\ alert' = Append(alert, FALSE)
               /\ UNCHANGED sns_messages
          ELSE /\ sns_calls' = Append(sns_calls, "ok")
               /\ alert' = Append(alert, TRUE)
               /\ sns_messages' =
                      Append(sns_messages,
                             [Subject |-> AlertSubject,
                              Message |-> AlertMessage(run.anomalies)])
    /\ pc' = "analyze"
    /\ UNCHANGED << logging, validation, loops, reporter, source, run, sns_topic_arn, metrics, put_calls, published, query,
                    user_behavior, response >>

\* Lines 456-461 and send_alert (367-392).  The return value is not used.
SendAlert ==
    /\ pc = "alert"
    /\ IF sns_topic_arn = ""
       THEN /\ alert' = Append(alert, FALSE)
            /\ UNCHANGED << sns_messages, sns_calls >>
       ELSE \E raises \in BOOLEAN :
            IF raises
            THEN /\ sns_calls' = Append(sns_calls, "error")
                 /\ alert' = Append(alert, FALSE)
                 /\ UNCHANGED sns_messages
            ELSE /\ sns_calls' = Append(sns_calls, "ok")
                 /\ alert' = Append(alert, TRUE)
                 /\ sns_messages' =
                        Append(sns_messages,
                               [Subject |-> AlertSubject,
                                Message |-> AlertMessage(run.anomalies)])
    /\ pc' = "analyze"
    /\ UNCHANGED << logging, validation, loops, reporter, source, run, sns_topic_arn, metrics, put_calls, published, query,
                    user_behavior, response >>

\* Lines 183-192: start_query; an exception makes analyze_user_behavior
\* return {}.
StartQuery ==
    /\ pc = "analyze"
    /\ \E raises \in BOOLEAN :
          IF raises
          THEN /\ user_behavior' = EmptyDict
               /\ pc' = "respond"
               /\ UNCHANGED query
          ELSE /\ query' = "Running"
               /\ pc' = "poll"
               /\ UNCHANGED user_behavior
    /\ UNCHANGED << logging, validation, loops, reporter, source, run, sns_topic_arn, metrics, put_calls, published, sns_messages, sns_calls,
                    alert, response >>

\* CloudWatch Logs: the running query ends.
QueryEnds ==
    /\ query = "Running"
    /\ query' \in TerminalStatuses
    /\ UNCHANGED << pc, logging, validation, loops, reporter, source, run, sns_topic_arn, metrics, put_calls, published,
                    sns_messages, sns_calls, alert, user_behavior, response >>

\* Lines 198 and 224-226: get_query_results raises.
PollRaises ==
    /\ pc = "poll"
    /\ user_behavior' = EmptyDict
    /\ pc' = "respond"
    /\ UNCHANGED << logging, validation, loops, reporter, source, run, sns_topic_arn, metrics, put_calls, published, sns_messages, sns_calls,
                    alert, query, response >>

\* Lines 196-222: get_query_results answers with the status of the query.
PollAnswered ==
    /\ pc = "poll"
    /\ IF query = "Complete"
       THEN /\ \E rows \in QueryResults : user_behavior' = UserBehavior(rows)
            /\ pc' = "respond"
       ELSE IF query = "Failed"
       THEN /\ user_behavior' = EmptyDict
            /\ pc' = "respond"
       ELSE UNCHANGED << user_behavior, pc >>
    /\ UNCHANGED << logging, validation, loops, reporter, source, run, sns_topic_arn, metrics, put_calls, published, sns_messages, sns_calls,
                    alert, query, response >>

\* Lines 196-226: one turn of the polling loop.
Poll == PollRaises \/ PollAnswered

\* len(metrics)
DictLen(dict) == Cardinality(DOMAIN dict)

\* Lines 466-476.
Respond ==
    /\ pc = "respond"
    /\ response' =
          [statusCode |-> 200,
           body |-> [message |-> "Monitoring completed successfully",
                     metrics_collected |-> DictLen(metrics),
                     anomalies_detected |-> Len(run.anomalies),
                     unique_users |-> UniqueUsers(user_behavior)]]
    /\ pc' = "done"
    /\ UNCHANGED << logging, validation, loops, reporter, source, run, sns_topic_arn, metrics, put_calls, published, sns_messages, sns_calls,
                    alert, query, user_behavior >>

Next ==
    \/ Construct
    \/ Collect
    \/ PublishCustomMetrics
    \/ HandlerDetect
    \/ SendAlert
    \/ StartQuery
    \/ QueryEnds
    \/ Poll
    \/ Respond

Spec == Init /\ [][Next]_vars

(***************************************************************************)
(* SpecLive: the run goes on from analyze_user_behavior.  The program is   *)
(* sequential, so the step that is next is eventually taken; a call is not *)
(* bound to raise, so nothing is asked of PollRaises.  The Insights query  *)
(* that runs eventually ends.  The properties checked under SpecLive start *)
(* at the call of analyze_user_behavior, and so does the fairness.         *)
(***************************************************************************)
Progress ==
    \/ StartQuery
    \/ PollAnswered
    \/ Respond

SpecLive == Init /\ [][Next]_vars /\ WF_vars(Progress) /\ WF_vars(QueryEnds)

(***************************************************************************)
(* SpecPublish: a call monitor.publish_custom_metrics(metrics) on a        *)
(* dictionary of up to MaxMetrics items, given as the sequence of its      *)
(* items.  Item i has key and value i, and is numeric unless i is a        *)
(* multiple of the dictionary's skip.                                      *)
(***************************************************************************)
MaxMetrics == 45

Skips == {0, 2, 3}

Dict(size, skip) ==
    [i \in 1..size |-> Item(i, i, skip = 0 \/ i % skip # 0)]

Dicts == { Dict(size, skip) : size \in 0..MaxMetrics, skip \in Skips }

InitPublish ==
    /\ pc = "call"
    /\ now = 0
    /\ hist = << >>
    /\ cur = Quiet
    /\ multiplier = DefaultMultiplier
    /\ run = NoRun
    /\ sns_topic_arn = ""
    /\ metrics \in Dicts
    /\ put_calls = << >>
    /\ published = << >>
    /\ sns_messages = << >>
    /\ sns_calls = << >>
    /\ alert = << >>
    /\ query = "none"
    /\ user_behavior = EmptyDict
    /\ response = EmptyDict
    /\ NoSetup
    /\ NoValidation
    /\ NoLoops
    /\ NoReport

\* Lines 394-435, on a dictionary given as its items.
PublishCall ==
    /\ pc = "call"
    /\ \E failing \in 1..(BatchCount(MetricData(metrics)) + 1) :
          LET outcome == Published(metrics, failing) IN
          /\ put_calls' = put_calls \o outcome.accepted
          /\ published' = Append(published, outcome.returned)
    /\ pc' = "returned"
    /\ UNCHANGED << logging, validation, loops, reporter, source, run, sns_topic_arn, metrics, sns_messages, sns_calls,
                    alert, query, user_behavior, response >>

NextPublish == PublishCall

SpecPublish == InitPublish /\ [][NextPublish]_vars

(***************************************************************************)
(* enable_bedrock_logging.py: BedrockLoggingEnabler.  Resource names are   *)
(* kept as the sequence of their parts, so that a name can be the prefix   *)
(* of another one.  Every AWS call either answers as the account's state   *)
(* says or fails with a botocore ClientError or with another exception     *)
(* (its fault).                                                            *)
(***************************************************************************)
Environment == "prod"           \* environment: str = 'prod'
AccountId == "123456789012"     \* sts.get_caller_identity()['Account']

\* Lines 214-216.
LogGroupName(environment) == << "/aws/bedrock/model-invocations/", environment >>
S3BucketName(environment, account_id) == << "bedrock-model-invocations-", environment, "-", account_id >>
S3KeyPrefix(environment) == << "model-invocations/", environment, "/" >>

\* Another log group, whose name starts with the name of the script's one.
Archive(log_group_name) == log_group_name \o << "-archive" >>

StartsWith(name, prefix) ==
    /\ Len(prefix) <= Len(name)
    /\ SubSeq(name, 1, Len(prefix)) = prefix

\* logs.describe_log_groups(logGroupNamePrefix=...): the groups it returns.
DescribeLogGroups(account, prefix) == { group \in account.log_groups : StartsWith(group, prefix) }

\* Lines 57-68: the configuration enable_model_invocation_logging puts.
LoggingConfig(log_group_name, s3_bucket_name, s3_key_prefix) == [cloudWatchConfig |-> [logGroupName |-> log_group_name], s3Config |-> [bucketName |-> s3_bucket_name, keyPrefix |-> s3_key_prefix], textDataDeliveryEnabled |-> TRUE, imageDataDeliveryEnabled |-> TRUE, embeddingDataDeliveryEnabled |-> TRUE]

\* A configuration somebody else has put: other destinations.
ForeignConfig == LoggingConfig(<< "/custom/bedrock" >>, << "custom-logs" >>, << "bedrock-logs/" >>)

NoConfig == << >>               \* no 'loggingConfig' in the response; None

\* "if config:" - None and the empty dictionary are false.
Truthy(config) == DOMAIN config # {}

NoFault == "none"
Faults == { NoFault, "ClientError", "Exception" }

\* Lines 105-126: every failure of the call is answered with None.
GetModelInvocationLoggingConfiguration(account, fault) == IF fault = NoFault THEN account.logging_config ELSE NoConfig

\* Lines 36-103: what the call returns, and the account after it.
EnableModelInvocationLogging(account, log_group_name, s3_bucket_name, s3_key_prefix, fault) == IF fault = NoFault THEN [returned |-> TRUE, account |-> [account EXCEPT !.logging_config = LoggingConfig(log_group_name, s3_bucket_name, s3_key_prefix)]] ELSE [returned |-> FALSE, account |-> account]

\* Line 167-171: the response of describe_log_groups is not looked at.
LogGroupFound(account, log_group_name, fault) == fault = NoFault

\* Lines 174-179: head_bucket fails with a ClientError on a missing bucket.
BucketFound(account, s3_bucket_name, fault) == fault = NoFault /\ s3_bucket_name \in account.buckets

\* Lines 148-190.  Only ClientError is caught around the two lookups.
VerifyLoggingSetup(account, log_group_name, s3_bucket_name, faults) == IF faults.describe = "Exception" \/ faults.head = "Exception" THEN Raise("Exception") ELSE Value([log_group_exists |-> LogGroupFound(account, log_group_name, faults.describe), s3_bucket_exists |-> BucketFound(account, s3_bucket_name, faults.head), bedrock_logging_enabled |-> Truthy(GetModelInvocationLoggingConfiguration(account, faults.get))])

\* A verification the run did not come to.
NotReached == [raised |-> FALSE]

Reported(verification) == ~verification.raised /\ "value" \in DOMAIN verification

\* any() where line 251 has all().
AnyValue(results) == \E key \in DOMAIN results : results[key]
\* Line 251: all(final_verification.values())
AllValues(results) == \A key \in DOMAIN results : results[key]

\* One run of setup_comprehensive_logging: what it saw, did and returned.
SetupRun(before, verification, puts, final_verification, returned, after) == [before |-> before, verification |-> verification, puts |-> puts, final_verification |-> final_verification, returned |-> returned, after |-> after]

\* Lines 236-249, after the prerequisites were found.
EnableAndVerify(account, verification, log_group_name, s3_bucket_name, s3_key_prefix, faults) ==
    LET enable == ~verification.value.bedrock_logging_enabled
        success == EnableModelInvocationLogging(account, log_group_name, s3_bucket_name, s3_key_prefix, faults.put)
        puts == IF enable THEN << faults.put >> ELSE << >>
        after == IF enable THEN success.account ELSE account
        final_verification == VerifyLoggingSetup(after, log_group_name, s3_bucket_name, faults.final)
    IN  IF enable /\ ~success.returned
        THEN SetupRun(account, verification, puts, NotReached, FALSE, after)
        ELSE IF final_verification.raised
        THEN SetupRun(account, verification, puts, final_verification, FALSE, after)
        ELSE SetupRun(account, verification, puts, final_verification, AllValues(final_verification.value), after)

\* Lines 192-260, with account_id=None as main calls it.
SetupComprehensiveLogging(account, environment, faults) ==
    LET log_group_name == LogGroupName(environment)
        s3_bucket_name == S3BucketName(environment, AccountId)
        s3_key_prefix == S3KeyPrefix(environment)
        verification == VerifyLoggingSetup(account, log_group_name, s3_bucket_name, faults.first)
    IN  IF faults.sts # NoFault
        THEN SetupRun(account, NotReached, << >>, NotReached, FALSE, account)
        ELSE IF verification.raised
        THEN SetupRun(account, verification, << >>, NotReached, FALSE, account)
        ELSE IF ~verification.value.log_group_exists \/ ~verification.value.s3_bucket_exists
        THEN SetupRun(account, verification, << >>, NotReached, FALSE, account)
        ELSE EnableAndVerify(account, verification, log_group_name, s3_bucket_name, s3_key_prefix, faults)

(***************************************************************************)
(* SpecLogging: setup_comprehensive_logging run on an account, and run     *)
(* once more on what the first run left.                                   *)
(***************************************************************************)
Accounts == [log_groups : SUBSET { LogGroupName(Environment), Archive(LogGroupName(Environment)) }, buckets : SUBSET { S3BucketName(Environment, AccountId) }, logging_config : { NoConfig, ForeignConfig, LoggingConfig(LogGroupName(Environment), S3BucketName(Environment, AccountId), S3KeyPrefix(Environment)) }]

\* The faults of the three calls of one verify_logging_setup.
VerifyFaults == [describe : Faults, head : Faults, get : { NoFault, "ClientError" }]

SetupFaults == [sts : { NoFault, "ClientError" }, first : VerifyFaults, put : Faults, final : VerifyFaults]

InitLogging ==
    /\ pc = "call"
    /\ aws \in Accounts
    /\ setups = << >>
    /\ now = 0
    /\ hist = << >>
    /\ cur = Quiet
    /\ multiplier = DefaultMultiplier
    /\ run = NoRun
    /\ InitHandler
    /\ NoValidation
    /\ NoLoops
    /\ NoReport

Setup ==
    /\ pc \in { "call", "returned" }
    /\ \E faults \in SetupFaults :
          LET done == SetupComprehensiveLogging(aws, Environment, faults) IN
          /\ aws' = done.after
          /\ setups' = Append(setups, done)
    /\ pc' = IF pc = "call" THEN "returned" ELSE "repeated"
    /\ UNCHANGED << validation, loops, reporter, source, run, handler >>

NextLogging == Setup

SpecLogging == InitLogging /\ [][NextLogging]_vars

(***************************************************************************)
(* validate_config.py: ConfigValidator.  A message is kept as the sequence *)
(* of its words and punctuation marks, and "phrase in message" is the      *)
(* search for the phrase's words side by side in it.  The text of an       *)
(* exception inside a message is the one word ExceptionText.               *)
(***************************************************************************)
Contains(text, phrase) == \E i \in 0..(Len(text) - Len(phrase)) : SubSeq(text, i + 1, i + Len(phrase)) = phrase

ExceptionText == "{e}"

AddError(self, message) == [self EXCEPT !.errors = Append(@, message)]
AddWarning(self, message) == [self EXCEPT !.warnings = Append(@, message)]
AddSuccess(self, message) == [self EXCEPT !.success_messages = Append(@, message)]

\* Lines 46-62.  identity is what get_caller_identity raised, or "ok".
CredentialsNotConfigured == << "AWS", "credentials", "not", "configured", ".", "Run", "'aws configure'" >>

ValidateAwsCredentials(self, identity) == IF identity = "ok" THEN AddSuccess(AddSuccess(self, << "AWS", "credentials", "configured", "for", "account", ":", "{Account}" >>), << "Using", "IAM", "principal", ":", "{Arn}" >>) ELSE IF identity = "NoCredentialsError" THEN AddError(self, CredentialsNotConfigured) ELSE AddError(self, << "Error", "validating", "AWS", "credentials", ":", ExceptionText >>)

\* Lines 66-74.
RequiredPermissions == << "cloudformation", "cloudwatch", "logs", "s3", "lambda", "sns", "iam" >>

\* service_name.upper()
Upper == [cloudformation |-> "CLOUDFORMATION", cloudwatch |-> "CLOUDWATCH", logs |-> "LOGS", s3 |-> "S3", lambda |-> "LAMBDA", sns |-> "SNS", iam |-> "IAM"]

\* Lines 77-88, for one service: answered is what the call raised, or "ok".
ValidatePermission(self, service_name, answered) == IF answered = "ok" THEN AddSuccess(self, << Upper[service_name], "permissions", "validated" >>) ELSE IF answered \in { "AccessDenied", "UnauthorizedOperation" } THEN AddError(self, << "Missing", Upper[service_name], "permissions" >>) ELSE IF answered = "ClientError" THEN AddWarning(self, << "Could", "not", "validate", Upper[service_name], "permissions", ":", ExceptionText >>) ELSE AddWarning(self, << "Error", "checking", Upper[service_name], "permissions", ":", ExceptionText >>)

\* Lines 76-88: the loop, from the i-th service on.
RECURSIVE ValidatePermissionsFrom(_, _, _)
ValidatePermissionsFrom(self, answers, i) == IF i > Len(RequiredPermissions) THEN self ELSE ValidatePermissionsFrom(ValidatePermission(self, RequiredPermissions[i], answers[RequiredPermissions[i]]), answers, i + 1)

\* Lines 64-88.
ValidateAwsPermissions(self, answers) == ValidatePermissionsFrom(self, answers, 1)

(***************************************************************************)
(* cloudformation/parameters.json.  A string is kept as the sequence of    *)
(* its characters; a JSON value is null or a string.                       *)
(***************************************************************************)
Null == [null |-> TRUE, text |-> << >>]
Str(chars) == [null |-> FALSE, text |-> chars]

\* "if value": None and the empty string are false.
NonEmpty(value) == ~value.null /\ Len(value.text) > 0

Letters == { "a", "b", "c", "d", "e", "f", "g", "h", "i", "j", "k", "l", "m", "n", "o", "p", "q", "r", "s", "t", "u", "v", "w", "x", "y", "z", "A", "B", "C", "D", "E", "F", "G", "H", "I", "J", "K", "L", "M", "N", "O", "P", "Q", "R", "S", "T", "U", "V", "W", "X", "Y", "Z" }
Digits == << "0", "1", "2", "3", "4", "5", "6", "7", "8", "9" >>
DigitSet == { Digits[i] : i \in 1..Len(Digits) }

\* Line 234: the classes of the pattern.
LocalChars == Letters \cup DigitSet \cup { ".", "_", "%", "+", "-" }
DomainChars == Letters \cup DigitSet \cup { ".", "-" }

AllIn(chars, first, last, class) == \A k \in first..last : chars[k] \in class

\* ^[local]+@[domain]+\.[a-zA-Z]{2,} up to the end of chars.
MatchesPattern(chars) == \E i \in 2..Len(chars) : \E j \in (i + 2)..(Len(chars) - 2) : chars[i] = "@" /\ chars[j] = "." /\ AllIn(chars, 1, i - 1, LocalChars) /\ AllIn(chars, i + 1, j - 1, DomainChars) /\ AllIn(chars, j + 1, Len(chars), Letters)

\* Lines 232-235.  "$" also matches before a newline that ends the string.
IsValidEmail(email) == MatchesPattern(email) \/ (Len(email) > 0 /\ email[Len(email)] = "\n" /\ MatchesPattern(SubSeq(email, 1, Len(email) - 1)))

DigitValue(char) == (CHOOSE i \in 1..Len(Digits) : Digits[i] = char) - 1

RECURSIVE Decimal(_)
Decimal(chars) == IF chars = << >> THEN 0 ELSE 10 * Decimal(SubSeq(chars, 1, Len(chars) - 1)) + DigitValue(chars[Len(chars)])

Unsigned(chars) == IF Len(chars) > 0 /\ chars[1] \in { "+", "-" } THEN Tail(chars) ELSE chars

\* int(value): TypeError on None, ValueError on a string that is no number.
ToInt(value) == IF value.null THEN Raise("TypeError") ELSE IF Unsigned(value.text) = << >> \/ ~AllIn(Unsigned(value.text), 1, Len(Unsigned(value.text)), DigitSet) THEN Raise("ValueError") ELSE Value(IF value.text[1] = "-" THEN 0 - Decimal(Unsigned(value.text)) ELSE Decimal(Unsigned(value.text)))

Param(key, value) == [ParameterKey |-> key, ParameterValue |-> value]

\* The file: missing, no JSON, a JSON object, or a JSON array of parameters.
NoJson == [exists |-> TRUE, json |-> FALSE, list |-> FALSE, params |-> << >>]
NoList == [exists |-> TRUE, json |-> TRUE, list |-> FALSE, params |-> << >>]
ParamsFile(params) == [exists |-> TRUE, json |-> TRUE, list |-> TRUE, params |-> params]

\* Line 108.
RequiredParams == << "Environment", "AlertEmail", "CloudTrailRetentionDays", "CloudWatchLogRetentionDays" >>
RetentionKeys == { "CloudTrailRetentionDays", "CloudWatchLogRetentionDays" }
MaxRetentionDays == 3653        \* days > 3653
DefaultEmail == << "a", "d", "m", "i", "n", "@", "c", "o", "m", "p", "a", "n", "y", ".", "c", "o", "m" >>
Environments == { << "d", "e", "v" >>, << "s", "t", "a", "g", "i", "n", "g" >>, << "p", "r", "o", "d" >> }

ParamKeys(params) == { params[i].ParameterKey : i \in 1..Len(params) }

\* Lines 111-115, from the i-th required parameter on.
RECURSIVE RequireFrom(_, _, _)
RequireFrom(self, params, i) == IF i > Len(RequiredParams) THEN self ELSE RequireFrom(IF RequiredParams[i] \notin ParamKeys(params) THEN AddError(self, << "Missing", "required", "parameter", ":", RequiredParams[i] >>) ELSE AddSuccess(self, << "Found", "required", "parameter", ":", RequiredParams[i] >>), params, i + 1)

\* Lines 122-128.
CheckEmail(self, param) == IF param.ParameterKey = "AlertEmail" /\ NonEmpty(param.ParameterValue) THEN (IF ~IsValidEmail(param.ParameterValue.text) THEN AddError(self, << "Invalid", "email", "format", ":", "{value}" >>) ELSE IF param.ParameterValue.text = DefaultEmail THEN AddWarning(self, << "Using", "default", "email", "address", "." >>) ELSE AddSuccess(self, << "Valid", "email", "configured", ":", "{value}" >>)) ELSE self

\* Lines 130-131.  None is not in the list either.
CheckEnvironment(self, param) == IF param.ParameterKey = "Environment" /\ (param.ParameterValue.null \/ param.ParameterValue.text \notin Environments) THEN AddWarning(self, << "Unusual", "environment", "value", ":", "{value}" >>) ELSE self

\* Lines 133-139: the validator after the check, or the exception it lets go.
CheckRetention(self, param) == IF param.ParameterKey \notin RetentionKeys THEN Value(self) ELSE LET days == ToInt(param.ParameterValue) IN IF days.raised THEN (IF days.exception = "ValueError" THEN Value(AddError(self, << "Invalid", "retention", "days", "value", "for", param.ParameterKey, ":", "{value}" >>)) ELSE days) ELSE IF days.value < 1 \/ days.value > MaxRetentionDays THEN Value(AddWarning(self, << "Unusual", "retention", "period", "for", param.ParameterKey >>)) ELSE Value(self)

\* Lines 118-144, from the i-th parameter on; line 143 ends the loop.
RECURSIVE CheckValuesFrom(_, _, _)
CheckValuesFrom(self, params, i) == IF i > Len(params) THEN self ELSE LET checked == CheckRetention(CheckEnvironment(CheckEmail(self, params[i]), params[i]), params[i]) IN IF checked.raised THEN AddError(CheckEnvironment(CheckEmail(self, params[i]), params[i]), << "Error", "reading", "parameters", "file", ":", ExceptionText >>) ELSE CheckValuesFrom(checked.value, params, i + 1)

\* Lines 90-144.
ValidateParametersFile(self, file) == IF ~file.exists THEN AddError(self, << "Parameters", "file", "not", "found", ":", "cloudformation/parameters.json" >>) ELSE IF ~file.json THEN AddError(self, << "Invalid", "JSON", "in", "parameters", "file", ":", ExceptionText >>) ELSE IF ~file.list THEN AddError(self, << "Parameters", "file", "must", "contain", "an", "array", "of", "parameters" >>) ELSE CheckValuesFrom(RequireFrom(self, file.params, 1), file.params, 1)

\* Lines 158-162: the value of the first AlertEmail parameter, or None.
RECURSIVE AlertEmailFrom(_, _)
AlertEmailFrom(params, i) == IF i > Len(params) THEN Null ELSE IF params[i].ParameterKey = "AlertEmail" THEN params[i].ParameterValue ELSE AlertEmailFrom(params, i + 1)

SesError == << "Error", "checking", "SES", "configuration", ":", ExceptionText >>

\* Lines 164-169.
CheckVerified(self, alert_email, verified) == IF NonEmpty(alert_email) /\ alert_email.text # DefaultEmail THEN (IF verified THEN AddSuccess(self, << "Email", "verified", "in", "SES", ":", "{alert_email}" >>) ELSE AddWarning(AddWarning(self, << "Email", "not", "verified", "in", "SES", ":", "{alert_email}" >>), << "Run", ":", "aws ses verify-email-identity" >>)) ELSE self

\* Lines 146-177.  ses is what list_verified_email_addresses raised, or "ok";
\* verified tells whether the alert address is in the list it returned.
ValidateEmailConfiguration(self, file, ses, verified) == IF ses = "AccessDenied" THEN AddWarning(self, << "Cannot", "validate", "SES", "configuration", "-", "missing", "permissions" >>) ELSE IF ses = "ClientError" THEN AddWarning(self, << "SES", "validation", "error", ":", ExceptionText >>) ELSE IF ses # "ok" THEN AddWarning(self, SesError) ELSE IF ~file.exists THEN self ELSE IF ~file.json \/ ~file.list THEN AddWarning(self, SesError) ELSE CheckVerified(self, AlertEmailFrom(file.params, 1), verified)

\* A check that can let an exception go: the validator it leaves, and whether it raised.
Checked(self) == [self |-> self, raised |-> FALSE]
Escaped(self) == [self |-> self, raised |-> TRUE]

\* Line 183: python_version < (3, 10), on (major, minor).
RequiredMajor == 3
RequiredMinor == 10
TooOld(python_version) == python_version[1] < RequiredMajor \/ (python_version[1] = RequiredMajor /\ python_version[2] < RequiredMinor)

\* Lines 182-186.  The message names the version that was asked for.
PythonVersionError == << "Python", "3.10+", "required", ",", "found", "{major}.{minor}" >>

CheckVersion(self, python_version) == IF TooOld(python_version) THEN AddError(self, PythonVersionError) ELSE AddSuccess(self, << "Python", "version", "{major}.{minor}", "is", "compatible" >>)

\* Lines 189-191.
RequiredPackages == << "boto3", "pandas", "matplotlib", "seaborn", "jinja2", "numpy" >>

\* Lines 201-203.
MissingPackages == << "Missing", "Python", "packages", ":", "{missing_packages}" >>

ReportMissing(self, missing_packages) == IF missing_packages # << >> THEN AddWarning(AddWarning(self, MissingPackages), << "Run", ":", "pip install -r python-scripts/requirements.txt" >>) ELSE self

\* Lines 193-203, from the i-th package on.  imports[package] is what
\* __import__ raised, or "ok"; only ImportError is caught.
RECURSIVE ImportFrom(_, _, _, _)
ImportFrom(self, imports, missing_packages, i) == IF i > Len(RequiredPackages) THEN Checked(ReportMissing(self, missing_packages)) ELSE IF imports[RequiredPackages[i]] = "ok" THEN ImportFrom(AddSuccess(self, << "Package", "installed", ":", RequiredPackages[i] >>), imports, missing_packages, i + 1) ELSE IF imports[RequiredPackages[i]] = "ImportError" THEN ImportFrom(self, imports, Append(missing_packages, RequiredPackages[i]), i + 1) ELSE Escaped(self)

\* Lines 179-203.
ValidatePythonEnvironment(self, python_version, imports) == ImportFrom(CheckVersion(self, python_version), imports, << >>, 1)

\* Lines 207-210.
Templates == << "cloudformation/bedrock-monitoring-infrastructure.yaml", "cloudformation/bedrock-monitoring-dashboards.yaml" >>

\* Lines 215-230, for one template: found is "missing", "ok", or what
\* reading or validating it raised.
ValidateTemplate(self, template_path, found) == IF found = "missing" THEN AddError(self, << "CloudFormation", "template", "not", "found", ":", template_path >>) ELSE IF found = "ok" THEN AddSuccess(self, << "Template", "validated", ":", template_path >>) ELSE IF found = "ClientError" THEN AddError(self, << "Template", "validation", "failed", "for", template_path, ":", ExceptionText >>) ELSE AddError(self, << "Error", "reading", "template", template_path, ":", ExceptionText >>)

RECURSIVE ValidateTemplatesFrom(_, _, _)
ValidateTemplatesFrom(self, founds, i) == IF i > Len(Templates) THEN self ELSE ValidateTemplatesFrom(ValidateTemplate(self, Templates[i], founds[i]), founds, i + 1)

\* Lines 205-230.  The client of line 212 is made outside every try.
ValidateCloudformationTemplates(self, client, founds) == IF client # "ok" THEN Escaped(self) ELSE Checked(ValidateTemplatesFrom(self, founds, 1))

\* Lines 275-286: the suggestion for one error, if a rule has one.
Suggestion(error) == IF Contains(error, << "AWS", "credentials", "not", "configured" >>) THEN << "Run 'aws configure' to set up your AWS credentials" >> ELSE IF Contains(error, << "Parameters", "file", "not", "found" >>) THEN << "Create cloudformation/parameters.json with required parameters" >> ELSE IF Contains(error, << "Invalid", "email", "format" >>) THEN << "Update AlertEmail in parameters.json with a valid email address" >> ELSE IF Contains(error, << "Python", "3.9+" >>) THEN << "Install Python 3.9 or higher" >> ELSE IF Contains(error, << "Missing", "Python", "packages" >>) THEN << "Run 'pip install -r python-scripts/requirements.txt'" >> ELSE IF Contains(error, << "CloudFormation", "template", "not", "found" >>) THEN << "Ensure all CloudFormation templates are in the correct location" >> ELSE << >>

\* Lines 270-288.
RECURSIVE SuggestionsFrom(_, _)
SuggestionsFrom(errors, i) == IF i > Len(errors) THEN << >> ELSE Suggestion(errors[i]) \o SuggestionsFrom(errors, i + 1)

GenerateFixSuggestions(self) == SuggestionsFrom(self.errors, 1)

\* Line 44.
IsValid(self) == Len(self.errors) = 0

\* Line 309, and the interpreter's exit status after an uncaught exception.
ExitCode(valid) == IF valid THEN 0 ELSE 1
UncaughtExit == 1

(***************************************************************************)
(* SpecValidate: one run of main() of validate_config.py.                  *)
(***************************************************************************)
Prod == << "p", "r", "o", "d" >>
Qa == << "q", "a" >>
OpsEmail == << "o", "p", "s", "@", "e", "x", ".", "o", "r", "g" >>
NoTldEmail == << "o", "p", "s", "@", "e", "x" >>
ShortTldEmail == << "o", "p", "s", "@", "e", "x", ".", "o" >>

GoodParams == << Param("Environment", Str(Prod)), Param("AlertEmail", Str(OpsEmail)), Param("CloudTrailRetentionDays", Str(<< "9", "0" >>)), Param("CloudWatchLogRetentionDays", Str(<< "3", "0" >>)) >>

WithEmail(email) == [GoodParams EXCEPT ![2] = Param("AlertEmail", email)]
WithRetention(days) == [GoodParams EXCEPT ![3] = Param("CloudTrailRetentionDays", days)]

Files == { NoFile, NoJson, NoList, ParamsFile(GoodParams), ParamsFile(<< Param("Environment", Str(Qa)) >>), ParamsFile(WithEmail(Str(DefaultEmail))), ParamsFile(WithEmail(Str(NoTldEmail))), ParamsFile(WithEmail(Str(ShortTldEmail))), ParamsFile(WithEmail(Null)), ParamsFile(WithRetention(Str(<< "9", "0", "d" >>))), ParamsFile(WithRetention(Null)), ParamsFile(WithRetention(Str(<< "3", "6", "5", "4" >>))), ParamsFile(WithRetention(Str(<< "-", "1" >>))) }

Identities == { "ok", "NoCredentialsError", "Exception" }

Services == { RequiredPermissions[i] : i \in 1..Len(RequiredPermissions) }
PermissionAnswers == { [service \in Services |-> "ok"], [service \in Services |-> "AccessDenied"], [service \in Services |-> "Exception"], [service \in Services |-> IF service = "s3" THEN "UnauthorizedOperation" ELSE IF service = "logs" THEN "ClientError" ELSE "ok"] }

SesAnswers == { "ok", "AccessDenied", "ClientError", "Exception" }

PythonVersions == { << 3, 8 >>, << 3, 9 >>, << 3, 10 >>, << 3, 11 >> }

Packages == { RequiredPackages[i] : i \in 1..Len(RequiredPackages) }
Imports == { [package \in Packages |-> "ok"], [package \in Packages |-> IF package = "pandas" THEN "ImportError" ELSE "ok"], [package \in Packages |-> IF package \in { "seaborn", "jinja2" } THEN "ImportError" ELSE "ok"], [package \in Packages |-> IF package = "matplotlib" THEN "ImportError" ELSE IF package = "numpy" THEN "ValueError" ELSE "ok"] }

Clients == { "ok", "NoRegionError" }
Founds == { << "ok", "ok" >>, << "missing", "missing" >>, << "ok", "missing" >>, << "ClientError", "ok" >>, << "ok", "Exception" >> }

InitValidate ==
    /\ pc = "credentials"
    /\ InitValidator
    /\ params_file \in Files
    /\ now = 0
    /\ hist = << >>
    /\ cur = Quiet
    /\ multiplier = DefaultMultiplier
    /\ run = NoRun
    /\ InitHandler
    /\ NoSetup
    /\ NoLoops
    /\ NoReport

\* Line 35.
Credentials ==
    /\ pc = "credentials"
    /\ \E identity \in Identities : validator' = ValidateAwsCredentials(validator, identity)
    /\ checks' = Append(checks, "validate_aws_credentials")
    /\ pc' = "permissions"
    /\ UNCHANGED << source, run, handler, logging, loops, reporter, params_file, is_valid, suggestions, exit_code >>

\* Line 36.
Permissions ==
    /\ pc = "permissions"
    /\ \E answers \in PermissionAnswers : validator' = ValidateAwsPermissions(validator, answers)
    /\ checks' = Append(checks, "validate_aws_permissions")
    /\ pc' = "parameters"
    /\ UNCHANGED << source, run, handler, logging, loops, reporter, params_file, is_valid, suggestions, exit_code >>

\* Line 37.
ParametersFile ==
    /\ pc = "parameters"
    /\ validator' = ValidateParametersFile(validator, params_file)
    /\ checks' = Append(checks, "validate_parameters_file")
    /\ pc' = "email"
    /\ UNCHANGED << source, run, handler, logging, loops, reporter, params_file, is_valid, suggestions, exit_code >>

\* Line 38.
EmailConfiguration ==
    /\ pc = "email"
    /\ \E ses \in SesAnswers, verified \in BOOLEAN : validator' = ValidateEmailConfiguration(validator, params_file, ses, verified)
    /\ checks' = Append(checks, "validate_email_configuration")
    /\ pc' = "python"
    /\ UNCHANGED << source, run, handler, logging, loops, reporter, params_file, is_valid, suggestions, exit_code >>

\* Line 39.
PythonEnvironment ==
    /\ pc = "python"
    /\ \E python_version \in PythonVersions, imports \in Imports :
          LET checked == ValidatePythonEnvironment(validator, python_version, imports) IN
          /\ validator' = checked.self
          /\ pc' = IF checked.raised THEN "raised" ELSE "templates"
    /\ checks' = Append(checks, "validate_python_environment")
    /\ UNCHANGED << source, run, handler, logging, loops, reporter, params_file, is_valid, suggestions, exit_code >>

\* Line 40.
CloudformationTemplates ==
    /\ pc = "templates"
    /\ \E client \in Clients, founds \in Founds :
          LET checked == ValidateCloudformationTemplates(validator, client, founds) IN
          /\ validator' = checked.self
          /\ pc' = IF checked.raised THEN "raised" ELSE "results"
    /\ checks' = Append(checks, "validate_cloudformation_templates")
    /\ UNCHANGED << source, run, handler, logging, loops, reporter, params_file, is_valid, suggestions, exit_code >>

\* Lines 42-44 and 298.
ReturnValid ==
    /\ pc = "results"
    /\ is_valid' = Append(is_valid, IsValid(validator))
    /\ pc' = "suggest"
    /\ UNCHANGED << source, run, handler, logging, loops, reporter, validator, checks, params_file, suggestions, exit_code >>

\* Lines 301-306.
SuggestFixes ==
    /\ pc = "suggest"
    /\ suggestions' = IF ~is_valid[1] THEN GenerateFixSuggestions(validator) ELSE suggestions
    /\ pc' = "exit"
    /\ UNCHANGED << source, run, handler, logging, loops, reporter, validator, checks, params_file, is_valid, exit_code >>

\* Line 309.
Exit ==
    /\ pc = "exit"
    /\ exit_code' = Append(exit_code, ExitCode(is_valid[1]))
    /\ pc' = "exited"
    /\ UNCHANGED << source, run, handler, logging, loops, reporter, validator, checks, params_file, is_valid, suggestions >>

\* An exception no check caught leaves validate_all and main.
Traceback ==
    /\ pc = "raised"
    /\ exit_code' = Append(exit_code, UncaughtExit)
    /\ pc' = "exited"
    /\ UNCHANGED << source, run, handler, logging, loops, reporter, validator, checks, params_file, is_valid, suggestions >>

NextValidate ==
    \/ Credentials
    \/ Permissions
    \/ ParametersFile
    \/ EmailConfiguration
    \/ PythonEnvironment
    \/ CloudformationTemplates
    \/ ReturnValid
    \/ SuggestFixes
    \/ Exit
    \/ Traceback

SpecValidate == InitValidate /\ [][NextValidate]_vars

(***************************************************************************)
(* Vocabulary of the properties.                                           *)
(***************************************************************************)
Returned == pc = "returned"

HasAnomaly(type) ==
    \E i \in 1..Len(run.anomalies) : run.anomalies[i].type = type

AnomaliesOf(type) ==
    { run.anomalies[i] : i \in { j \in 1..Len(run.anomalies) : run.anomalies[j].type = type } }

\* The baseline windows whose Invocations fetch raised in a pass.
FailedWindows(pass) ==
    { i \in 1..BaselineHours : "Invocations" \in hist[i].fails[pass] }

\* The samples the metric source delivered for the invocation baseline.
FetchedSamples == BaselineHours - Cardinality(FailedWindows("baseline"))

\* a * b > c * d for a, c < 2^31 and b, d < 2^15, by long multiplication
\* in base 2^15.
Base == 2^15

ProductGT(a, b, c, d) ==
    LET lowAB == (a % Base) * b
        highAB == (a \div Base) * b + (lowAB \div Base)
        lowCD == (c % Base) * d
        highCD == (c \div Base) * d + (lowCD \div Base)
    IN  \/ highAB > highCD
        \/ highAB = highCD /\ lowAB % Base > lowCD % Base

\* x > (num / den) * (mean(xs) + k * stdev(xs)), where stdev is the sample
\* standard deviation, taken as 0 for a single sample:
\*   (den*n*x - num*S)^2 * (n - 1) > num^2 * n * k^2 * (n*Q - S^2)
\* with n = len(xs), S = sum(xs), Q = sum of squares, and the left side
\* positive.
AboveThreshold(x, xs, k, num, den) ==
    LET n == Len(xs)
        S == Sum(xs)
        Q == SumSq(xs)
        diff == den * n * x - num * S
    IN  /\ ~IsNaN(x)
        /\ ~HasNaN(xs)
        /\ diff > 0
        /\ n > 1 => ProductGT(diff * diff, n - 1, k * k * (n * Q - S * S), num * num * n)

\* 100 * errors / invocations > percent, without dividing.
RateAbove(collected, percent) ==
    100 * collected.total_errors > percent * collected.total_invocations

(***************************************************************************)
(* C1.  detect_anomalies returns an empty anomaly list whenever the        *)
(* invocation baseline collected for the run has fewer than 24 samples,    *)
(* whatever the current hour holds.  The samples of a baseline are the     *)
(* windows the metric source delivered: a window whose fetch failed is no  *)
(* sample (C8).  The list the code builds has 168 entries in every run, so *)
(* its own guard never applies, and a baseline with fewer than 24          *)
(* delivered samples is judged like any other.                             *)
(***************************************************************************)
C1_FewSamplesNoAnomaly ==
    (Returned /\ FetchedSamples < MinBaseline) => run.anomalies = << >>

(***************************************************************************)
(* C2.  As claimed: a high_error_rate anomaly is emitted only when the     *)
(* baseline error-rate series has at least 24 samples.                     *)
(***************************************************************************)
C2_ErrorRateNeedsMinBaseline ==
    (Returned /\ HasAnomaly("high_error_rate"))
        => Len(run.baseline_error_rates) >= MinBaseline

(***************************************************************************)
(* C2, as amended.  A high_error_rate anomaly is emitted only when the     *)
(* baseline error-rate series has at least one sample; the series has one  *)
(* sample for each of the first 167 baseline windows whose second fetch    *)
(* shows invocations > 0, and no minimum of 24 applies to it.              *)
(***************************************************************************)
ErrorWindows ==
    LET hourly_metrics == Hourly(hist, "errors")
    IN  { i \in 1..(BaselineHours - 1) : hourly_metrics[hist[i]].total_invocations > 0 }

C2_ErrorRateNeedsOneSample ==
    Returned =>
        /\ HasAnomaly("high_error_rate") => Len(run.baseline_error_rates) >= 1
        /\ run.current_metrics.total_invocations > 0 =>
              Len(run.baseline_error_rates) = Cardinality(ErrorWindows)

C2_Witness ==
    /\ Returned
    /\ HasAnomaly("high_error_rate")
    /\ Len(run.baseline_error_rates) = 1

(***************************************************************************)
(* C3.  With a baseline of at least 24 samples, a high_usage anomaly is   *)
(* emitted if and only if the current-hour invocation count is strictly    *)
(* greater than mean(baseline) + threshold_multiplier * stdev(baseline);   *)
(* the record carries that threshold and the baseline mean.                *)
(***************************************************************************)
C3_HighUsageIffAboveThreshold ==
    (Returned /\ Len(run.baseline_metrics) >= MinBaseline) =>
        /\ HasAnomaly("high_usage") <=>
              AboveThreshold(run.current_metrics.total_invocations,
                             run.baseline_metrics, multiplier, 1, 1)
        /\ \A a \in AnomaliesOf("high_usage") :
              /\ a.current_value = run.current_metrics.total_invocations
              /\ a.baseline_mean.num = Sum(run.baseline_metrics)
              /\ a.baseline_mean.den = Len(run.baseline_metrics)
              /\ a.threshold.mean = a.baseline_mean
              /\ a.threshold.k = multiplier
              /\ a.threshold.stdev.num =
                    Len(run.baseline_metrics) * SumSq(run.baseline_metrics)
                    - Sum(run.baseline_metrics) * Sum(run.baseline_metrics)
              /\ a.threshold.stdev.den =
                    Len(run.baseline_metrics) * (Len(run.baseline_metrics) - 1)

\* A baseline that varies, and a current hour above its threshold.
C3_Witness ==
    /\ Returned
    /\ HasAnomaly("high_usage")
    /\ \E i \in 1..Len(run.baseline_metrics) :
          run.baseline_metrics[i] # run.baseline_metrics[1]
    /\ Sum(run.baseline_metrics) > Len(run.baseline_metrics)

\* The baseline [10]*168 and a current hour of 10: equal to the threshold.
C3_EqualIsNoAnomaly ==
    /\ Returned
    /\ \A i \in 1..Len(run.baseline_metrics) : run.baseline_metrics[i] = 10
    /\ run.current_metrics.total_invocations = 10
    /\ ~HasAnomaly("high_usage")

(***************************************************************************)
(* C4.  Every anomaly has severity "high" if its value is strictly greater *)
(* than 1.5 times its threshold and "medium" otherwise.                    *)
(***************************************************************************)
SeriesOf(type) ==
    IF type = "high_usage" THEN run.baseline_metrics ELSE run.baseline_error_rates

C4_SeverityByOneAndAHalf ==
    Returned =>
        \A i \in 1..Len(run.anomalies) :
            LET a == run.anomalies[i] IN
            /\ a.type \in {"high_usage", "high_error_rate"}
            /\ a.severity \in {"high", "medium"}
            /\ a.severity = "high" <=>
                  AboveThreshold(a.current_value, SeriesOf(a.type), multiplier, 3, 2)

\* Both severities in one run: usage far above, error rate just above.
C4_Witness ==
    /\ Returned
    /\ \E a \in AnomaliesOf("high_usage") : a.severity = "medium"
    /\ \E a \in AnomaliesOf("high_error_rate") : a.severity = "high"

\* The baseline [10]*168 and a current hour of 31 give "high".
C4_Example ==
    /\ Returned
    /\ \A i \in 1..Len(run.baseline_metrics) : run.baseline_metrics[i] = 10
    /\ run.current_metrics.total_invocations = 31
    /\ \E a \in AnomaliesOf("high_usage") : a.severity = "high"

C6_NoDivisionByZero ==
    Returned =>
        /\ run.error # "ZeroDivisionError"
        /\ Len(run.baseline_error_rates) <= Cardinality(ErrorWindows)
        /\ run.current_metrics.total_invocations = 0 =>
              /\ run.baseline_error_rates = << >>
              /\ ~HasAnomaly("high_error_rate")
        /\ ErrorWindows = {} => ~HasAnomaly("high_error_rate")

\* The second pass ran over a baseline without any invocation.
C6_Witness ==
    /\ Returned
    /\ \A i \in 1..BaselineHours : hist[i] = Quiet
    /\ run.current_metrics.total_errors > 0
    /\ run.baseline_error_rates = << >>
    /\ ~HasAnomaly("high_error_rate")

\* Every window, baseline and current, has zero invocations.
C6_AllQuiet ==
    /\ Returned
    /\ \A i \in 1..BaselineHours : hist[i] = Quiet
    /\ cur = Quiet
    /\ run.anomalies = << >>

(***************************************************************************)
(* C7.  collect_usage_metrics never raises and always returns the metrics  *)
(* dictionary.  success_rate is absent exactly when an exception cut the   *)
(* computation short; it is 0 when total_invocations is 0 and              *)
(* (invocations - errors) / invocations * 100 otherwise.                   *)
(***************************************************************************)
\* A response that makes collect_usage_metrics raise inside its try block:
\* a datapoint without the statistic that is summed or averaged.
CutShort(window, pass) ==
    \E m \in MetricNames :
        /\ m \notin window.fails[pass]
        /\ \E i \in 1..Len(window.data[m]) :
              StatisticOf(m) \notin DOMAIN window.data[m][i]

C7_SuccessRate ==
    Returned =>
        LET m == run.current_metrics IN
        /\ DOMAIN InitialMetrics \subseteq DOMAIN m
        /\ "success_rate" \in DOMAIN m <=> ~CutShort(cur, "current")
        /\ "success_rate" \in DOMAIN m =>
              /\ m.total_invocations = 0 => m.success_rate = 0
              /\ m.total_invocations > 0 =>
                    m.success_rate * m.total_invocations
                        = (m.total_invocations - m.total_errors) * 100

\* No invocations were counted, and the success rate is 0.
C7_Witness ==
    /\ Returned
    /\ run.current_metrics.total_invocations = 0
    /\ "success_rate" \in DOMAIN run.current_metrics
    /\ run.current_metrics.success_rate = 0

\* An exception after the invocations were counted: no success_rate.
C7_CutShortCase ==
    /\ Returned
    /\ run.current_metrics.total_invocations > 0
    /\ "success_rate" \notin DOMAIN run.current_metrics

(***************************************************************************)
(* C8.  A baseline window whose metric fetch fails with an API error       *)
(* contributes no sample to the baseline, so the baseline has fewer points *)
(* than in a run where every fetch succeeds.  (The failure is caught and   *)
(* the run continues; but the window is appended as a sample of 0.)        *)
(***************************************************************************)
C8_FailedWindowIsNoSample ==
    Returned => Len(run.baseline_metrics) = FetchedSamples

(***************************************************************************)
(* C9.  A run with an insufficient baseline ends in an explicit "no        *)
(* decision possible" result, which the caller can tell apart from a list  *)
(* of anomalies, the empty list of "no anomaly found" included.            *)
(***************************************************************************)
IsAnomalyList(result) ==
    \A i \in 1..Len(result) : result[i].type \in {"high_usage", "high_error_rate"}

C9_InsufficientIsExplicit ==
    (Returned /\ FetchedSamples < MinBaseline) => ~IsAnomalyList(run.anomalies)

(***************************************************************************)
(* C10.  A failure to send the alert does not change the detection result: *)
(* lambda_handler reports statusCode 200 and the number of anomalies that  *)
(* detection found, whether send_alert returned True or False.             *)
(***************************************************************************)
C10_AlertFailureKeepsResult ==
    (pc = "done" /\ (alert # << >> \/ run.anomalies # << >>)) =>
        /\ response.statusCode = 200
        /\ response.body.anomalies_detected = Len(run.anomalies)
        /\ run.anomalies = DetectAnomalies(DefaultMultiplier, now, hist, cur)

\* The topic is configured and the publish call failed.
C10_Witness ==
    /\ pc = "done"
    /\ sns_topic_arn # ""
    /\ alert = << FALSE >>
    /\ sns_messages = << >>
    /\ response.statusCode = 200
    /\ response.body.anomalies_detected = 2

(***************************************************************************)
(* C11.  detect_anomalies never raises: it returns a list for every        *)
(* combination of fetch successes, fetch failures and metric values, and   *)
(* when an exception occurs inside the run, the list holds the anomalies   *)
(* appended before the exception.  The exception the inputs reach is the   *)
(* AttributeError of statistics.stdev on error rates with a NaN (line      *)
(* 295), after the high_usage check.                                       *)
(***************************************************************************)
C11_NeverRaises ==
    Returned =>
        /\ IsAnomalyList(run.anomalies)
        /\ run.error \in {NoError, "AttributeError"}
        /\ run.error # NoError =>
              /\ ~HasAnomaly("high_error_rate")
              /\ Len(run.anomalies) <= 1
              /\ HasAnomaly("high_usage") <=>
                    AboveThreshold(run.current_metrics.total_invocations,
                                   run.baseline_metrics, multiplier, 1, 1)

\* An exception after the high_usage anomaly was appended.
C11_Witness ==
    /\ Returned
    /\ run.error = "AttributeError"
    /\ HasAnomaly("high_usage")

\* An exception before any anomaly was appended: the empty list.
C11_ExceptionNoAnomaly ==
    /\ Returned
    /\ run.error = "AttributeError"
    /\ run.anomalies = << >>

C13_BaselineIsHistorical ==
    Returned =>
        /\ \A i \in 1..Len(run.baseline_metrics) :
              WindowEnd(now, i) <= CurrentHourStart(now)
        /\ \A i \in 1..LoopCount(StartTime(now), now - Hour) :
              WindowEnd(now, i) <= CurrentHourStart(now)

(***************************************************************************)
(* C14.  When the error-rate baseline has exactly one sample, no           *)
(* statistics error is raised, the standard deviation is taken as 0, the   *)
(* error threshold is that sample, and the current error rate is flagged   *)
(* as high_error_rate if and only if it is strictly greater than the       *)
(* sample and above the 5% floor.                                          *)
(***************************************************************************)
C14_OneSampleThreshold ==
    (Returned /\ Len(run.baseline_error_rates) = 1) =>
        LET sample == run.baseline_error_rates[1]
            collected == run.current_metrics
        IN  /\ run.error = NoError
            /\ HasAnomaly("high_error_rate") <=>
                  /\ ~IsNaN(sample)
                  /\ 100 * collected.total_errors > sample * collected.total_invocations
                  /\ RateAbove(collected, ErrorRateFloor)
            /\ \A a \in AnomaliesOf("high_error_rate") :
                  /\ a.threshold.stdev = ZeroStdev
                  /\ a.threshold.mean.num = sample
                  /\ a.threshold.mean.den = 1
                  /\ a.baseline_mean = a.threshold.mean

\* One sample of 10%, and a current error rate of 20%.
C14_Witness ==
    /\ Returned
    /\ run.baseline_error_rates = << 10 >>
    /\ \E a \in AnomaliesOf("high_error_rate") : a.current_value = 20

\* One sample of 10%, and a current error rate of 10%: not flagged.
C14_EqualIsNoAnomaly ==
    /\ Returned
    /\ run.baseline_error_rates = << 10 >>
    /\ run.current_metrics.total_invocations = 10
    /\ run.current_metrics.total_errors = 1
    /\ ~HasAnomaly("high_error_rate")

(***************************************************************************)
(* C15.  As claimed: in a run of lambda_handler that completes, exactly    *)
(* one alert is published if detect_anomalies returned a non-empty list    *)
(* and none if it returned an empty list.                                  *)
(***************************************************************************)
Completed == pc = "done" /\ response.statusCode = 200

C15_ExactlyOneAlertPublished ==
    Completed =>
        Len(sns_messages) = IF run.anomalies # << >> THEN 1 ELSE 0

(***************************************************************************)
(* C15, as amended.  send_alert is called exactly once if detect_anomalies *)
(* returned a non-empty list and not at all if it returned an empty list;  *)
(* the call publishes one alert when the topic is configured and the       *)
(* publish call succeeds, and none otherwise.  The alert lists every       *)
(* detected anomaly, and the call is made after detection completes and    *)
(* before user-behaviour analysis starts.                                  *)
(***************************************************************************)
BeforeAlert == pc \in {"start", "collect", "publish", "detect", "alert"}

C15_OneAlertCall ==
    /\ BeforeAlert => alert = << >> /\ sns_messages = << >> /\ query = "none"
    /\ pc = "alert" => run.anomalies # << >>
    /\ (~BeforeAlert /\ (pc = "done" => Completed)) =>
          Len(alert) = IF run.anomalies # << >> THEN 1 ELSE 0
    /\ Len(sns_messages) = IF alert = << TRUE >> THEN 1 ELSE 0
    /\ alert = << TRUE >> => sns_topic_arn # ""
    /\ \A i \in 1..Len(sns_messages) :
          LET message == sns_messages[i].Message IN
          /\ sns_messages[i].Subject = AlertSubject
          /\ message.detected = Len(run.anomalies)
          /\ Len(message.lines) = Len(run.anomalies)
          /\ \A j \in 1..Len(run.anomalies) :
                /\ message.lines[j].type = run.anomalies[j].type
                /\ message.lines[j].current_value = run.anomalies[j].current_value
                /\ message.lines[j].threshold = run.anomalies[j].threshold
                /\ message.lines[j].severity = run.anomalies[j].severity

\* One alert with two anomalies was published, and the run completed.
C15_Witness ==
    /\ Completed
    /\ alert = << TRUE >>
    /\ Len(sns_messages) = 1
    /\ sns_messages[1].Message.detected = 2

(***************************************************************************)
(* C16.  send_alert returns True if and only if the SNS publish call       *)
(* completed without error; when no topic ARN is configured it returns     *)
(* False without calling SNS; it never raises: the handler goes on to the  *)
(* user-behaviour analysis after every call.                               *)
(***************************************************************************)
C16_SendAlertResult ==
    /\ [](/\ Len(sns_calls) <= Len(alert)
          /\ sns_topic_arn = "" =>
                sns_calls = << >> /\ \A i \in 1..Len(alert) : ~alert[i]
          /\ sns_topic_arn # "" =>
                /\ Len(sns_calls) = Len(alert)
                /\ \A i \in 1..Len(alert) : alert[i] <=> sns_calls[i] = "ok")
    /\ [][pc = "alert" => pc' = "analyze" /\ Len(alert') = Len(alert) + 1]_vars

\* No topic is configured: False, and SNS was not called.
C16_Witness ==
    /\ sns_topic_arn = ""
    /\ alert = << FALSE >>
    /\ sns_calls = << >>

\* The publish call failed: False.
C16_PublishFailed ==
    /\ alert = << FALSE >>
    /\ sns_calls = << "error" >>

\* The publish call succeeded: True.
C16_Published ==
    /\ alert = << TRUE >>
    /\ sns_calls = << "ok" >>

(***************************************************************************)
(* C17.  publish_custom_metrics publishes every metric whose value is an   *)
(* int or a float exactly once, in input order, in put_metric_data calls   *)
(* of at most 20 entries each, and skips every other value; it returns     *)
(* True if and only if every call succeeded.  When a call fails it returns *)
(* False, no later batch is sent, and the batches sent before stay         *)
(* published.                                                              *)
(***************************************************************************)
\* The entries of a sequence of batches, in the order they were put.
RECURSIVE Entries(_)
Entries(batches) ==
    IF batches = << >> THEN << >>
    ELSE Head(batches) \o Entries(Tail(batches))

\* The numeric items of a dictionary, as the entries to publish.
NumericEntries(items) ==
    LET numbers == { i \in 1..Len(items) : items[i].numeric }
        Rank(i) == Cardinality({ j \in numbers : j <= i })
    IN  [r \in 1..Cardinality(numbers) |->
            LET i == CHOOSE i \in numbers : Rank(i) = r
            IN  [MetricName |-> items[i].key, Value |-> items[i].value]]

C17_PublishInBatches ==
    (pc = "returned" /\ Len(published) = 1) =>
        LET wanted == NumericEntries(metrics)
            put == Entries(put_calls)
        IN  /\ \A b \in 1..Len(put_calls) :
                  Len(put_calls[b]) \in 1..BatchSize
            /\ Len(put) <= Len(wanted)
            /\ put = SubSeq(wanted, 1, Len(put))
            /\ published[1] <=> put = wanted
            /\ ~published[1] =>
                  /\ Len(put) = BatchSize * Len(put_calls)
                  /\ Len(put) < Len(wanted)

\* Two batches, of 20 and of 1, for the 21 numeric items of a dictionary
\* that has other items too.
C17_Witness ==
    /\ pc = "returned"
    /\ published = << TRUE >>
    /\ Len(put_calls) = 2
    /\ Len(put_calls[1]) = BatchSize
    /\ Len(put_calls[2]) = 1
    /\ Len(metrics) > Len(Entries(put_calls))

\* The second of three calls failed: one batch stays published.
C17_SecondCallFailed ==
    /\ pc = "returned"
    /\ published = << FALSE >>
    /\ Len(put_calls) = 1
    /\ Len(NumericEntries(metrics)) > 2 * BatchSize

(***************************************************************************)
(* The logging script.                                                     *)
(***************************************************************************)
SetupRuns == { setups[i] : i \in 1..Len(setups) }

\* The verifications a run came to and that returned their results.
Verifications(done) == { results \in { done.verification, done.final_verification } : Reported(results) }

StandardConfig == LoggingConfig(LogGroupName(Environment), S3BucketName(Environment, AccountId), S3KeyPrefix(Environment))

(* C18: setup_comprehensive_logging returns True only if its final        *)
(* verification reports log_group_exists, s3_bucket_exists and            *)
(* bedrock_logging_enabled all true; in every other case (a prerequisite  *)
(* missing, the enable call failed, the final verification failed, an     *)
(* exception) it returns False, and it never raises.                      *)
C18_SetupResult ==
    \A done \in SetupRuns :
        /\ done.returned \in BOOLEAN
        /\ done.returned <=>
              /\ Reported(done.final_verification)
              /\ done.final_verification.value.log_group_exists
              /\ done.final_verification.value.s3_bucket_exists
              /\ done.final_verification.value.bedrock_logging_enabled

\* A run that enabled logging, verified it and returned True.
C18_Witness ==
    \E done \in SetupRuns :
        /\ done.puts = << NoFault >>
        /\ done.returned
        /\ done.after.logging_config = StandardConfig

\* A run that enabled logging and whose final verification failed.
C18_FinalVerificationFailed ==
    \E done \in SetupRuns :
        /\ done.puts = << NoFault >>
        /\ Reported(done.final_verification)
        /\ ~done.returned

\* A run in which a lookup raised something that is no ClientError.
C18_ExceptionCaught ==
    \E done \in SetupRuns :
        /\ done.verification.raised
        /\ ~done.returned

(* C19: a run of setup_comprehensive_logging calls                        *)
(* put_model_invocation_logging_configuration at most once, and only when *)
(* its first verification found the log group and the bucket present and  *)
(* logging not yet enabled; consequently a second run after a successful  *)
(* one makes no enabling call and leaves the configuration unchanged.     *)
C19_PutOnlyWhenNotEnabled ==
    \A done \in SetupRuns :
        /\ Len(done.puts) <= 1
        /\ done.puts # << >> =>
              /\ Reported(done.verification)
              /\ done.verification.value.log_group_exists
              /\ done.verification.value.s3_bucket_exists
              /\ ~done.verification.value.bedrock_logging_enabled

C19_SecondRunChangesNothing ==
    Len(setups) = 2 /\ setups[1].returned =>
        /\ setups[2].puts = << >>
        /\ setups[2].after.logging_config = setups[2].before.logging_config

C19_EnablesOnce == C19_PutOnlyWhenNotEnabled /\ C19_SecondRunChangesNothing

\* A second run that puts the configuration again, over a foreign one.
C19_SecondRunOverwrites ==
    /\ Len(setups) = 2
    /\ setups[1].returned
    /\ setups[1].puts = << >>
    /\ setups[2].before.logging_config = ForeignConfig
    /\ setups[2].puts = << NoFault >>
    /\ setups[2].after.logging_config = StandardConfig

(* C20: verify_logging_setup reports log_group_exists = True only if a    *)
(* log group with the given name exists; when describe_log_groups         *)
(* succeeds but returns no group of that name, log_group_exists is False. *)
C20_LogGroupExists ==
    \A done \in SetupRuns : \A results \in Verifications(done) :
        results.value.log_group_exists => LogGroupName(Environment) \in done.before.log_groups

\* The lookup returned nothing at all and the group was reported present.
C20_NothingReturned ==
    \E done \in SetupRuns :
        /\ Reported(done.verification)
        /\ DescribeLogGroups(done.before, LogGroupName(Environment)) = {}
        /\ done.verification.value.log_group_exists

(***************************************************************************)
(* The configuration validator.                                            *)
(***************************************************************************)
AllChecks == << "validate_aws_credentials", "validate_aws_permissions", "validate_parameters_file", "validate_email_configuration", "validate_python_environment", "validate_cloudformation_templates" >>

Exited == pc = "exited"

\* validate_all returned to main.
ValidateAllReturned == is_valid # << >>

Recorded(messages, message) == \E i \in 1..Len(messages) : messages[i] = message

Suggested(suggestion) == \E i \in 1..Len(suggestions) : suggestions[i] = suggestion

(* C21: validate_all runs all six checks in a fixed order, whatever errors *)
(* the earlier ones recorded, and returns True if and only if the errors   *)
(* list is empty afterwards; warnings alone never make it return False;    *)
(* main exits with code 0 exactly when it returns True.                    *)
C21_ValidateAll ==
    Exited =>
        /\ checks = AllChecks
        /\ ValidateAllReturned
        /\ is_valid[1] <=> validator.errors = << >>
        /\ exit_code[1] = 0 <=> is_valid[1]

\* What holds of the runs in which validate_all returns.
C21_WhenItReturns ==
    /\ \E n \in 0..Len(AllChecks) : checks = SubSeq(AllChecks, 1, n)
    /\ ValidateAllReturned =>
          /\ checks = AllChecks
          /\ is_valid[1] <=> validator.errors = << >>
    /\ Exited => (exit_code[1] = 0 <=> ValidateAllReturned /\ is_valid[1])

\* Errors from the first check on, and all six checks were run.
C21_ErrorsDoNotStop ==
    /\ Exited
    /\ Recorded(validator.errors, CredentialsNotConfigured)
    /\ checks = AllChecks
    /\ is_valid = << FALSE >>
    /\ exit_code = << 1 >>

\* Warnings only: validate_all returns True.
C21_WarningsOnly ==
    /\ Exited
    /\ validator.warnings # << >>
    /\ is_valid = << TRUE >>
    /\ exit_code = << 0 >>

\* An import that fails with something else than ImportError.
C21_CheckRaised ==
    /\ Exited
    /\ Len(checks) = 5
    /\ ~ValidateAllReturned

(* C22: generate_fix_suggestions has a suggestion for each kind of problem *)
(* it has a rule for: when validate_python_environment recorded a          *)
(* Python-version error the list holds the install-Python suggestion, and  *)
(* when missing packages were recorded it holds the pip-install one.       *)
C22_SuggestionsForPython ==
    pc \in { "exit", "exited" } /\ is_valid = << FALSE >> =>
        /\ Recorded(validator.errors, PythonVersionError) => Suggested("Install Python 3.9 or higher")
        /\ Recorded(validator.errors \o validator.warnings, MissingPackages) => Suggested("Run 'pip install -r python-scripts/requirements.txt'")

\* A version error and missing packages, and neither suggestion.
C22_NoSuggestion ==
    /\ Exited
    /\ is_valid = << FALSE >>
    /\ Recorded(validator.errors, PythonVersionError)
    /\ Recorded(validator.warnings, MissingPackages)
    /\ suggestions = << >>

\* The rules that can fire do.
C22_OtherRulesFire ==
    /\ Exited
    /\ Suggested("Run 'aws configure' to set up your AWS credentials")
    /\ Suggested("Create cloudformation/parameters.json with required parameters")
    /\ Suggested("Ensure all CloudFormation templates are in the correct location")

(***************************************************************************)
(* Termination.                                                            *)
(***************************************************************************)
Polling == pc = "poll"

\* analyze_user_behavior returned to lambda_handler.
AnalysisReturned == pc \in { "respond", "done" }

(* C24: every run of analyze_user_behavior eventually returns, provided    *)
(* the Insights query eventually reaches a terminal status (Complete,      *)
(* Failed, Cancelled or Timeout): the polling loop does not wait forever   *)
(* on a query that has stopped.                                            *)
C24_AnalysisReturns == [](Polling /\ query \in TerminalStatuses => <>AnalysisReturned)

\* What holds: the loop ends on the two statuses it looks for.
C24_ReturnsWhenCompleteOrFailed == [](Polling /\ query \in { "Complete", "Failed" } => <>AnalysisReturned)

\* The loop polling a query that was cancelled or timed out.
C24_PollingStoppedQuery == Polling /\ query \in { "Cancelled", "Timeout" }

(***************************************************************************)
(* The response of lambda_handler.                                         *)
(***************************************************************************)
Done == pc = "done"

\* No exception has reached the except clause of lambda_handler: the
\* monitor was constructed and the run is at analyze_user_behavior.
Analyzing == pc \in { "analyze", "poll" }

(* C23: lambda_handler never raises and always returns a response whose    *)
(* statusCode is 200 or 500; it returns 200 whenever no exception escapes  *)
(* its steps, which includes the runs in which every CloudWatch, SNS and   *)
(* Logs call failed, because each step swallows its own errors.            *)
C23_AlwaysResponds ==
    /\ [](Done => response.statusCode \in { 200, 500 })
    /\ [](Analyzing => <>(Done /\ response.statusCode = 200))

\* What holds: a run that returns returns 200 or 500, and 500 only when
\* the constructor raised.
C23_StatusCode ==
    /\ Done => response.statusCode \in { 200, 500 }
    /\ Done /\ response.statusCode = 500 => run = NoRun /\ published = << >> /\ query = "none"
    /\ ~Done => response = EmptyDict

\* Every call failed, and the response is 200.
C23_EveryCallFailed ==
    /\ Done
    /\ response.statusCode = 200
    /\ published = << FALSE >>
    /\ sns_calls = << "error" >>
    /\ user_behavior = EmptyDict
    /\ query = "none"

(***************************************************************************)
(* The loops of detect_anomalies.                                          *)
(***************************************************************************)
InLoop == pc \in { "baseline", "errors" }

(* C25: every run of detect_anomalies terminates: the invocation-baseline  *)
(* loop performs exactly 168 one-hour fetches and the error-rate loop at   *)
(* most 167, each turn strictly advancing the window start towards a fixed *)
(* end time, whatever the fetches return.                                  *)
C25_DetectTerminates ==
    /\ <>Returned
    /\ [](Returned => fetches.baseline = BaselineHours /\ fetches.errors <= BaselineHours - 1)
    /\ [][/\ now' = now
          /\ fetches' # fetches => InLoop /\ current_time' = current_time + Hour /\ current_time' <= now]_vars

\* A run that went through both loops to their ends.
C25_Witness ==
    /\ Returned
    /\ fetches.baseline = BaselineHours
    /\ fetches.errors = BaselineHours - 1
    /\ run.error = NoError

\* A run that an exception ended between the loops.
C25_EndedByException ==
    /\ Returned
    /\ fetches.errors = 0
    /\ run.error # NoError

\* The steps of the two loops compute what DetectRun does.
C25_SameAsDetectRun == Returned => run = DetectRun(multiplier, now, hist, cur)

(***************************************************************************)
(* A baseline of zeros.                                                    *)
(***************************************************************************)
\* Lines 251 and 259-261: every sample of the invocation baseline is 0, and
\* so are its mean and its standard deviation.
ZeroBaseline ==
    /\ Len(run.baseline_metrics) = BaselineHours
    /\ \A i \in 1..Len(run.baseline_metrics) : run.baseline_metrics[i] = 0

ZeroThreshold(threshold) ==
    /\ threshold.mean.num = 0
    /\ threshold.stdev.num = 0

(* C26: when every sample of the invocation baseline is 0, the threshold   *)
(* is 0, a current count is a high_usage anomaly exactly when it is above  *)
(* 0, and the severity of that anomaly is "high", never "medium".          *)
C26_ZeroBaselineIsHigh ==
    Returned /\ ZeroBaseline =>
        /\ HasAnomaly("high_usage") <=> Greater(run.current_metrics.total_invocations, 0)
        /\ \A a \in AnomaliesOf("high_usage") :
              /\ ZeroThreshold(a.threshold)
              /\ a.severity = "high"

\* A busy hour after a week of zeros.
C26_Witness ==
    /\ Returned
    /\ ZeroBaseline
    /\ Greater(run.current_metrics.total_invocations, 0)
    /\ \E a \in AnomaliesOf("high_usage") : a.severity = "high"

\* A quiet hour after a week of zeros: no anomaly.
C26_QuietHour ==
    /\ Returned
    /\ ZeroBaseline
    /\ run.current_metrics.total_invocations = 0
    /\ run.anomalies = << >>

(***************************************************************************)
(* The error trend of the reporter.                                        *)
(***************************************************************************)
\* Line 115: the days of the period that had invocations.
TrafficDays ==
    { i \in 1..Len(daily) : WindowHasInvocations(DailyMetrics(daily)[i]) }

\* Line 111: day i starts i days before the call, so the least index is the
\* most recent day and the greatest the oldest.
MostRecentDay == CHOOSE i \in TrafficDays : \A j \in TrafficDays : i <= j

OldestDay == CHOOSE i \in TrafficDays : \A j \in TrafficDays : j <= i

\* Line 116.
RateOfDay(i) == ErrorRate(DailyMetrics(daily)[i]).value

TrendReturned == pc = "reported"

(* C27: _calculate_error_trend returns "Improving" only when the error     *)
(* rate of the most recent day with traffic is lower than that of the      *)
(* oldest day with traffic, "Worsening" only when it is higher, "Stable"   *)
(* when the two are equal, and "Insufficient Data" when fewer than two     *)
(* days had invocations.                                                   *)
C27_ErrorTrend ==
    TrendReturned =>
        /\ error_trend[1] = "Improving" =>
              Greater(RateOfDay(OldestDay), RateOfDay(MostRecentDay))
        /\ error_trend[1] = "Worsening" =>
              Greater(RateOfDay(MostRecentDay), RateOfDay(OldestDay))
        /\ Cardinality(TrafficDays) >= 2 /\ RateOfDay(MostRecentDay) = RateOfDay(OldestDay) =>
              error_trend[1] = "Stable"
        /\ Cardinality(TrafficDays) < 2 => error_trend[1] = "Insufficient Data"

\* The error rate rose over the period, and the trend is "Improving".
C27_RisingIsImproving ==
    /\ TrendReturned
    /\ Cardinality(TrafficDays) >= 2
    /\ Greater(RateOfDay(MostRecentDay), RateOfDay(OldestDay))
    /\ error_trend[1] = "Improving"

\* The error rate fell over the period, and the trend is "Worsening".
C27_FallingIsWorsening ==
    /\ TrendReturned
    /\ Cardinality(TrafficDays) >= 2
    /\ Greater(RateOfDay(OldestDay), RateOfDay(MostRecentDay))
    /\ error_trend[1] = "Worsening"

\* What does hold: the labels are those of the claim with the two days
\* exchanged, and "Stable" and "Insufficient Data" are as stated.
C27_LabelsExchanged ==
    TrendReturned =>
        /\ error_trend[1] = "Improving" <=>
              Cardinality(TrafficDays) >= 2 /\ Greater(RateOfDay(MostRecentDay), RateOfDay(OldestDay))
        /\ error_trend[1] = "Worsening" <=>
              Cardinality(TrafficDays) >= 2 /\ Greater(RateOfDay(OldestDay), RateOfDay(MostRecentDay))
        /\ Cardinality(TrafficDays) >= 2 /\ RateOfDay(MostRecentDay) = RateOfDay(OldestDay) =>
              error_trend[1] = "Stable"
        /\ Cardinality(TrafficDays) < 2 <=> error_trend[1] = "Insufficient Data"
        /\ error_trend[1] # "Unknown"

====
